---------------------------- MODULE Spec2Model ----------------------------
(***************************************************************************)
(* Deep-zoom tiler: the pyramid builder (the Web Worker script of          *)
(* ImageSplitter), the hand-over of its result to the App, and the         *)
(* viewport state machine of ImageExplorer.                                *)
(*                                                                         *)
(* Lengths the renderer computes (viewport size, pan, world size) are      *)
(* JavaScript numbers.  They are modelled as exact rationals, written as   *)
(* integers counting 1/Sub of a pixel; ExactDiv stops the model checker    *)
(* if a quotient is not a whole number of such units, so no value is ever  *)
(* rounded by the model.                                                   *)
(***************************************************************************)
EXTENDS Integers, Sequences, FiniteSets, TLC

\* src/unnamed/part_000:1 and :92
TILE_SIZE == 128

(***************************************************************************)
(* Bounds of the model.                                                    *)
(***************************************************************************)
\* largest image side that is tried
MaxDim == 1024
\* largest side of the display area offered to the explorer, in pixels
MaxArea == 800

\* sides of the source images that are tried: around the powers of two that
\* change the number of levels, and odd sizes whose halves are rounded
DimCandidates == {1, 64, 65, 128, 129, 256, 301, 512, 1024, 1025}
Dims == {d \in DimCandidates : d <= MaxDim}
HeightsOf(w) == CASE w = 1    -> {1}
                  [] w = 64   -> {64}
                  [] w = 65   -> {128}
                  [] w = 128  -> {128}
                  [] w = 129  -> {128}
                  [] w = 256  -> {1, 256}
                  [] w = 301  -> {257}
                  [] w = 512  -> {256, 512}
                  [] w = 1024 -> {1, 1024}
                  [] OTHER    -> {w}
Sources == {s \in Dims \X (Dims \cup {257}) : s[2] \in HeightsOf(s[1])}

(***************************************************************************)
(* Arithmetic helpers.                                                     *)
(***************************************************************************)
Max(a, b) == IF a >= b THEN a ELSE b
Min(a, b) == IF a <= b THEN a ELSE b
CeilDiv(a, b) == (a + b - 1) \div b
RECURSIVE Halved(_, _)
\* d halved k times, rounding down each time
Halved(d, k) == IF k = 0 THEN d ELSE Halved(d, k - 1) \div 2
\* the keys of the tile grid of a bitmap of the given size
GridKeys(width, height) ==
    (0..(CeilDiv(height, TILE_SIZE) - 1)) \X (0..(CeilDiv(width, TILE_SIZE) - 1))

\* Math.ceil(Math.log2(a / b)) for integers a, b >= 1: the least integer k,
\* negative when a < b, with a / b <= 2^k
LogRange == 0..12
CeilLog2Ratio(a, b) ==
    IF a > b
      THEN CHOOSE k \in LogRange : a <= b * 2^k /\ (k = 0 \/ a > b * 2^(k-1))
      ELSE -(CHOOSE k \in LogRange : a * 2^k <= b /\ a * 2^(k+1) > b)

\* src/unnamed/part_000:100-101
NumLevelsOf(width, height) == CeilLog2Ratio(Max(width, height), TILE_SIZE) + 1

(***************************************************************************)
(* State.                                                                  *)
(***************************************************************************)
VARIABLES
    \* --- the worker (workerScript) ---
    wpc,            \* position of self.onmessage
    image,          \* the decoded bitmap's size (originalDimensions)
    numLevels,      \* the worker's numLevels
    level,          \* loop variable of the level loop
    currentCanvas,  \* size of currentCanvas
    allTiles,       \* level -> (<<row, col>> -> blob)
    tilePromises,   \* tiles of the current level whose blob is awaited
    levelDims,      \* level -> the levelWidth, levelHeight it was tiled with
    posted,         \* every message the worker posted, in order
    \* --- ImageSplitter / App (main thread) ---
    handled,        \* number of worker messages worker.onmessage has handled
    isProcessing,
    progressMessage,
    generatedBlobs, \* generatedBlobsRef.current
    generatedData,  \* App's generatedData (the data prop of ImageExplorer)
    explorerKey,
    mode,           \* ImageSplitter's mode: "generate" or "load"
    imageFile,      \* ImageSplitter's imageFile: the chosen image or archive
    splitterGeneratedData,  \* ImageSplitter's own generatedData
    zipLoad,        \* the call of handleZipFile: its position and its archive
    download,       \* the archive handleExport saved last
    \* --- ImageExplorer (the state of the mounted instance) ---
    zoomIndex,
    minZoomIndex,
    pan,            \* {x, y}, in units of 1/Sub pixel
    viewportSize,   \* {width, height}, in units of 1/Sub pixel
    isInitialized,
    isShiftPressed, \* the Shift key as the key listeners of the window saw it
    imageCache,     \* imageCache.current: tileKey -> the source of its image
    fetches,        \* the images whose onload is awaited
    canvasRef,      \* what was drawn since the canvas was last cleared
    frameDeps       \* the dependencies the draw effect last ran with

workerVars == <<wpc, image, numLevels, level, currentCanvas, allTiles,
                tilePromises, levelDims, posted>>
archiveVars == <<mode, imageFile, zipLoad, download>>
mainVars   == <<handled, isProcessing, progressMessage, generatedBlobs,
                generatedData, explorerKey, splitterGeneratedData, archiveVars>>
renderVars == <<imageCache, fetches, canvasRef, frameDeps, isShiftPressed>>
explorerVars == <<zoomIndex, minZoomIndex, pan, viewportSize, isInitialized,
                  renderVars>>
appVars == <<mainVars, explorerVars>>
vars == <<workerVars, mainVars, explorerVars>>

NoData == [none |-> TRUE]
NoSize == [width |-> 0, height |-> 0]
\* a canvas nothing is drawn on: the tiles drawn, and the one drawn last
BlankCanvas == [paints |-> {}, top |-> NoData]
\* the dependencies of the draw effect at the first render of an instance
InitialDeps ==
    [isInitialized |-> FALSE, pan |-> [x |-> 0, y |-> 0], zoomIndex |-> 0,
     viewportSize |-> NoSize]
MountRendererKeepCache ==
    /\ imageCache' = imageCache
    /\ fetches' = {}
    /\ canvasRef' = BlankCanvas
    /\ frameDeps' = InitialDeps
    /\ isShiftPressed' = FALSE
\* a fresh instance: useRef({}), a new canvas element, and the first run of
\* the draw effect, which returns at its guard
MountRenderer ==
    /\ imageCache' = <<>>
    /\ fetches' = {}
    /\ canvasRef' = BlankCanvas
    /\ frameDeps' = InitialDeps
    /\ isShiftPressed' = FALSE
\* generatedBlobsRef.current when it is null: a table no worker and no archive
\* builds, with the level -1 alone
NoBlobs == [lv \in {0 - 1} |-> NoData]

Init ==
    /\ wpc = "idle"
    /\ image = NoSize
    /\ numLevels = 0
    /\ level = 0
    /\ currentCanvas = NoSize
    /\ allTiles = <<>>
    /\ tilePromises = <<>>
    /\ levelDims = <<>>
    /\ posted = <<>>
    /\ handled = 0
    /\ isProcessing = FALSE
    /\ progressMessage = NoData
    /\ generatedBlobs = NoBlobs
    /\ generatedData = NoData
    /\ explorerKey = 0
    /\ mode = "generate"
    /\ imageFile = NoData
    /\ splitterGeneratedData = NoData
    /\ zipLoad = [pc |-> "idle"]
    /\ download = [pc |-> "idle"]
    /\ zoomIndex = 0
    /\ minZoomIndex = 0
    /\ pan = [x |-> 0, y |-> 0]
    /\ viewportSize = NoSize
    /\ isInitialized = FALSE
    /\ imageCache = <<>>
    /\ fetches = {}
    /\ canvasRef = BlankCanvas
    /\ frameDeps = InitialDeps
    /\ isShiftPressed = FALSE

(***************************************************************************)
(* The worker: self.onmessage of workerScript.                             *)
(***************************************************************************)
\* generateTiles: starts the worker on the chosen image file
GenerateTiles(w, h) ==
    /\ wpc = "idle"
    /\ mode = "generate"
    /\ ~isProcessing
    /\ imageFile' = [type |-> "image", width |-> w, height |-> h]
    /\ isProcessing' = TRUE
    /\ splitterGeneratedData' = NoData
    /\ generatedBlobs' = NoBlobs
    /\ progressMessage' = [type |-> "init"]
    /\ image' = [width |-> w, height |-> h]
    /\ wpc' = "decode"
    /\ UNCHANGED <<numLevels, level, currentCanvas, allTiles, tilePromises,
                   levelDims, posted, handled, generatedData, explorerKey,
                   mode, zipLoad, download, explorerVars>>

\* createImageBitmap resolved; numLevels, allTiles and the first canvas
Decode ==
    /\ wpc = "decode"
    /\ numLevels' = NumLevelsOf(image.width, image.height)
    /\ allTiles' = <<>>
    /\ currentCanvas' = [width |-> image.width, height |-> image.height]
    /\ level' = numLevels' - 1
    /\ wpc' = "loop"
    /\ UNCHANGED <<image, tilePromises, levelDims, posted, appVars>>

\* the blob of the tile at (y, x) of a level of size levelWidth x levelHeight:
\* the size of tileCanvas and of the region drawn into it at (0, 0)
TileBlobUncropped(y, x, levelWidth, levelHeight) ==
    [width   |-> TILE_SIZE,
     height  |-> TILE_SIZE,
     sWidth  |-> TILE_SIZE,
     sHeight |-> TILE_SIZE]
TileBlob(y, x, levelWidth, levelHeight) ==
    [width   |-> TILE_SIZE,
     height  |-> TILE_SIZE,
     sWidth  |-> Min(TILE_SIZE, levelWidth - x * TILE_SIZE),
     sHeight |-> Min(TILE_SIZE, levelHeight - y * TILE_SIZE)]

\* `Processing level ${level}/${numLevels - 1}...`: the level and the number
\* after the slash
ProgressMessageTotal(lv, n) == [type |-> "progress", level |-> lv, total |-> n]
ProgressMessage(lv, n) == [type |-> "progress", level |-> lv, total |-> n - 1]

\* Math.ceil(levelWidth / TILE_SIZE), Math.ceil(levelHeight / TILE_SIZE)
GridColsFloor(levelWidth) == levelWidth \div TILE_SIZE
GridCols(levelWidth) == CeilDiv(levelWidth, TILE_SIZE)
GridRows(levelHeight) == CeilDiv(levelHeight, TILE_SIZE)

\* one pass of the level loop up to the await: the progress message, the
\* level's entry in allTiles and one convertToBlob promise per tile
TileLevel ==
    /\ wpc = "loop"
    /\ level >= 0
    /\ posted' = Append(posted, ProgressMessage(level, numLevels))
    /\ levelDims' = (level :> currentCanvas) @@ levelDims
    /\ allTiles' = (level :> <<>>) @@ allTiles
    /\ LET cols == GridCols(currentCanvas.width)
           rows == GridRows(currentCanvas.height)
       IN  tilePromises' =
             [k \in (0..(rows-1)) \X (0..(cols-1)) |->
                 TileBlob(k[1], k[2], currentCanvas.width, currentCanvas.height)]
    /\ wpc' = "await"
    /\ UNCHANGED <<image, numLevels, level, currentCanvas, appVars>>

\* Promise.all(tilePromises) fulfilled: every blob is stored under its key
TilesResolved ==
    /\ wpc = "await"
    /\ allTiles' = [allTiles EXCEPT ![level] = tilePromises]
    /\ tilePromises' = <<>>
    /\ wpc' = "downsample"
    /\ UNCHANGED <<image, numLevels, level, currentCanvas, levelDims, posted,
                   appVars>>

\* Math.floor(levelWidth / 2) x Math.floor(levelHeight / 2)
NextCanvasRoundUp(canvas) ==
    [width |-> (canvas.width + 1) \div 2, height |-> (canvas.height + 1) \div 2]
NextCanvasOneLess(canvas) ==
    [width |-> (canvas.width - 1) \div 2, height |-> (canvas.height - 1) \div 2]
NextCanvas(canvas) ==
    [width |-> canvas.width \div 2, height |-> canvas.height \div 2]

\* the canvas of the next coarser level, or the end of the loop
Downsample ==
    /\ wpc = "downsample"
    /\ IF level > 0
         THEN /\ currentCanvas.width > 0
              /\ currentCanvas.height > 0
              /\ currentCanvas' = NextCanvas(currentCanvas)
         ELSE UNCHANGED currentCanvas
    /\ level' = level - 1
    /\ wpc' = "loop"
    /\ UNCHANGED <<image, numLevels, allTiles, tilePromises, levelDims,
                   posted, appVars>>

DoneMessage ==
    [type |-> "done",
     data |-> [tiles |-> allTiles,
               originalDimensions |-> image,
               numLevels |-> numLevels]]
ErrorMessage == [type |-> "error"]

\* the loop has ended: self.postMessage({ type: 'done', data }), and then
\* finally { self.close() }
PostDone ==
    /\ wpc = "loop"
    /\ level < 0
    /\ posted' = Append(posted, DoneMessage)
    /\ wpc' = "closed"
    /\ UNCHANGED <<image, numLevels, level, currentCanvas, allTiles,
                   tilePromises, levelDims, appVars>>

\* an exception inside the try block.  createImageBitmap or a canvas
\* allocation can fail for lack of memory at any of these places, one
\* convertToBlob can reject while the earlier ones have already stored
\* their blob, and drawImage throws when the canvas it reads has a zero
\* side.
RowMajor(k, cols) == k[1] * cols + k[2]
Throw ==
    /\ \/ /\ wpc = "decode"
          /\ UNCHANGED <<allTiles, tilePromises>>
       \/ /\ wpc = "await"
          /\ \E bad \in DOMAIN tilePromises :
               LET cols == GridCols(currentCanvas.width)
                   ok == {k \in DOMAIN tilePromises :
                            RowMajor(k, cols) < RowMajor(bad, cols)}
               IN  allTiles' = [allTiles EXCEPT ![level] =
                                   [k \in ok |-> tilePromises[k]]]
          /\ tilePromises' = <<>>
       \/ /\ wpc = "downsample"
          /\ level > 0
          /\ UNCHANGED <<allTiles, tilePromises>>
    /\ wpc' = "catch"
    /\ UNCHANGED <<image, numLevels, level, currentCanvas, levelDims, posted,
                   appVars>>

\* catch (error) { self.postMessage({ type: 'error', ... }) }, and then
\* finally { self.close() }
PostErrorThenDone ==
    /\ wpc = "catch"
    /\ posted' = posted \o <<ErrorMessage, DoneMessage>>
    /\ wpc' = "closed"
    /\ UNCHANGED <<image, numLevels, level, currentCanvas, allTiles,
                   tilePromises, levelDims, appVars>>
PostError ==
    /\ wpc = "catch"
    /\ posted' = Append(posted, ErrorMessage)
    /\ wpc' = "closed"
    /\ UNCHANGED <<image, numLevels, level, currentCanvas, allTiles,
                   tilePromises, levelDims, appVars>>

(***************************************************************************)
(* Main thread: worker.onmessage of generateTiles, and the App.            *)
(***************************************************************************)
\* the object-URL table built from the blobs of a 'done' message
TileUrls(tiles) == [lv \in DOMAIN tiles |-> [k \in DOMAIN tiles[lv] |-> tiles[lv][k]]]

FinalData(data) ==
    [tiles |-> TileUrls(data.tiles),
     originalDimensions |-> data.originalDimensions,
     numLevels |-> data.numLevels]

\* worker.onmessage for the next message in flight
OnMessage ==
    /\ handled < Len(posted)
    /\ handled' = handled + 1
    /\ LET e == posted[handled + 1]
       IN  CASE e.type = "progress" ->
                  /\ progressMessage' = e
                  /\ UNCHANGED <<isProcessing, generatedBlobs, generatedData,
                                 explorerKey, splitterGeneratedData,
                                 explorerVars>>
             [] e.type = "done" ->
                  /\ generatedBlobs' = e.data.tiles
                  /\ splitterGeneratedData' = FinalData(e.data)
                  /\ generatedData' = FinalData(e.data)
                  /\ explorerKey' = explorerKey + 1
                  /\ isProcessing' = FALSE
                  /\ progressMessage' = NoData
                  \* key={explorerKey}: a fresh ImageExplorer is mounted
                  /\ zoomIndex' = 0
                  /\ minZoomIndex' = 0
                  /\ pan' = [x |-> 0, y |-> 0]
                  /\ viewportSize' = NoSize
                  /\ isInitialized' = FALSE
                  /\ MountRenderer
             [] e.type = "error" ->
                  /\ isProcessing' = FALSE
                  /\ UNCHANGED <<progressMessage, generatedBlobs,
                                 generatedData, explorerKey,
                                 splitterGeneratedData, explorerVars>>
    /\ UNCHANGED <<workerVars, archiveVars>>

(***************************************************************************)
(* ImageExplorer: the viewport state machine.                              *)
(***************************************************************************)
\* lengths are counted in units of 1/Sub pixel: fine enough for a quarter
\* of a viewport, the centring offset and the coarsest zoom ratio
Sub == 4 * 2^(NumLevelsOf(MaxDim + 1, MaxDim + 1))

\* a / b where the quotient is a whole number of units; anything else stops
\* the model checker
ExactDiv(a, b) == CASE a % b = 0 -> a \div b

\* x / 2^e, for an exponent of either sign
DivPow2(x, e) == IF e >= 0 THEN ExactDiv(x, 2^e) ELSE x * 2^(-e)

Mounted == generatedData # NoData
originalDimensions == generatedData.originalDimensions
dataNumLevels == generatedData.numLevels

\* originalDimensions / 2 ** (numLevels - 1 - i)
WorldSize(i) ==
    [width  |-> DivPow2(originalDimensions.width * Sub, dataNumLevels - 1 - i),
     height |-> DivPow2(originalDimensions.height * Sub, dataNumLevels - 1 - i)]

\* the display areas (contentRect of the wrapper) that are tried, in pixels
AreaSides == {a \in 0..MaxArea : a % 400 = 0}

\* the frame the ResizeObserver callback computes for a display area, each
\* side as a fraction num / den of a unit
FrameFractionsOfWidth(parentWidth, parentHeight) ==
    [wnum |-> parentWidth * Sub * 19, wden |-> 20,
     hnum |-> parentWidth * Sub * 19 * originalDimensions.height,
     hden |-> 20 * originalDimensions.width]
FrameFractions(parentWidth, parentHeight) ==
    LET w == originalDimensions.width
        h == originalDimensions.height
        limitWidth  == parentWidth * Sub * 19
        limitHeight == parentHeight * Sub * 19
    IN  \* frameWidth / imageAspectRatio > parentHeight * 0.95
        IF limitWidth * h > limitHeight * w
          THEN [wnum |-> limitHeight * w, wden |-> 20 * h,
                hnum |-> limitHeight,     hden |-> 20]
          ELSE [wnum |-> limitWidth,      wden |-> 20,
                hnum |-> limitWidth * h,  hden |-> 20 * w]

FrameOf(parentWidth, parentHeight) ==
    LET f == FrameFractions(parentWidth, parentHeight)
    IN  [width  |-> ExactDiv(f.wnum, f.wden),
         height |-> ExactDiv(f.hnum, f.hden)]

\* the areas that are tried: those whose frame is a whole number of pixels
ExactArea(parentWidth, parentHeight) ==
    LET f == FrameFractions(parentWidth, parentHeight)
    IN  /\ f.wnum % (f.wden * Sub) = 0
        /\ f.hnum % (f.hden * Sub) = 0

\* the frames of the areas that are tried
Frames ==
    IF Mounted
      THEN {FrameOf(a[1], a[2]) :
              a \in {b \in AreaSides \X AreaSides : ExactArea(b[1], b[2])}}
      ELSE {}

\* the ResizeObserver callback, for an area with the given frame
Resize(frame) ==
    /\ Mounted
    /\ frame \in Frames
    /\ viewportSize' = frame
    /\ isInitialized' = FALSE
    \* width={viewportSize.width} height={viewportSize.height}: setting a
    \* canvas to another size clears it
    /\ canvasRef' = IF frame = viewportSize THEN canvasRef ELSE BlankCanvas
    /\ UNCHANGED <<zoomIndex, minZoomIndex, pan, imageCache, fetches, frameDeps,
                   isShiftPressed,
                   workerVars, mainVars>>

clampAxis(p, world, view) ==
    IF world < view THEN ExactDiv(world - view, 2)
                    ELSE Max(0, Min(p, world - view))

clampPanNoUpperBound(newPan, worldSize, viewSize) ==
    [x |-> IF worldSize.width < viewSize.width
             THEN ExactDiv(worldSize.width - viewSize.width, 2)
             ELSE Max(0, newPan.x),
     y |-> IF worldSize.height < viewSize.height
             THEN ExactDiv(worldSize.height - viewSize.height, 2)
             ELSE Max(0, newPan.y)]
clampPanHalfRange(newPan, worldSize, viewSize) ==
    [x |-> IF worldSize.width < viewSize.width
             THEN ExactDiv(worldSize.width - viewSize.width, 2)
             ELSE Max(0, Min(newPan.x, (worldSize.width - viewSize.width) \div 2)),
     y |-> IF worldSize.height < viewSize.height
             THEN ExactDiv(worldSize.height - viewSize.height, 2)
             ELSE Max(0, Min(newPan.y, (worldSize.height - viewSize.height) \div 2))]
clampPanDrifting(newPan, worldSize, viewSize) ==
    [x |-> IF worldSize.width < viewSize.width
             THEN ExactDiv(worldSize.width - viewSize.width, 2)
             ELSE Max(0, Min(newPan.x, worldSize.width - viewSize.width) - Sub),
     y |-> IF worldSize.height < viewSize.height
             THEN ExactDiv(worldSize.height - viewSize.height, 2)
             ELSE Max(0, Min(newPan.y, worldSize.height - viewSize.height) - Sub)]
clampPan(newPan, worldSize, viewSize) ==
    [x |-> clampAxis(newPan.x, worldSize.width, viewSize.width),
     y |-> clampAxis(newPan.y, worldSize.height, viewSize.height)]

\* the for loop of getInitialState, from index i with baseIndex = base
RECURSIVE ScanBaseIndexAssignFirst(_, _)
ScanBaseIndexAssignFirst(i, base) ==
    IF i >= dataNumLevels THEN base
    ELSE IF \/ WorldSize(i).width > viewportSize.width
            \/ WorldSize(i).height > viewportSize.height
           THEN i
           ELSE ScanBaseIndexAssignFirst(i + 1, i)
ScanBaseIndexFirstFit(i, base) == base
ScanBaseIndexNoBreak(i, base) == Max(dataNumLevels - 1, 0)
RECURSIVE ScanBaseIndex(_, _)
ScanBaseIndex(i, base) ==
    IF i >= dataNumLevels THEN base
    ELSE IF \/ WorldSize(i).width > viewportSize.width
            \/ WorldSize(i).height > viewportSize.height
           THEN base
           ELSE ScanBaseIndex(i + 1, i)

getInitialStateKeepPan ==
    LET baseIndex == ScanBaseIndex(0, 0)
    IN  [zoomIndex    |-> baseIndex,
         minZoomIndex |-> baseIndex,
         pan          |-> pan]
\* getInitialState(), for a viewport of non-zero width
getInitialState ==
    LET baseIndex == ScanBaseIndex(0, 0)
    IN  [zoomIndex    |-> baseIndex,
         minZoomIndex |-> baseIndex,
         pan          |-> clampPan([x |-> 0, y |-> 0], WorldSize(baseIndex),
                                   viewportSize)]

\* the effect on [isInitialized, getInitialState]
InitEffect ==
    /\ Mounted
    /\ ~isInitialized
    /\ viewportSize.width # 0
    /\ zoomIndex' = getInitialState.zoomIndex
    /\ minZoomIndex' = getInitialState.minZoomIndex
    /\ pan' = getInitialState.pan
    /\ isInitialized' = TRUE
    /\ UNCHANGED <<viewportSize, renderVars, workerVars, mainVars>>

handleZoomKeepPan(newZoomIndex, screenPoint) ==
    /\ IF newZoomIndex = zoomIndex
         THEN UNCHANGED <<zoomIndex, pan>>
         ELSE LET clampedNewZoomIndex ==
                      Max(minZoomIndex, Min(newZoomIndex, dataNumLevels - 1))
              IN  /\ zoomIndex' = clampedNewZoomIndex
                  /\ pan' = clampPan(pan, WorldSize(clampedNewZoomIndex),
                                     viewportSize)
    /\ UNCHANGED <<minZoomIndex, viewportSize, isInitialized, renderVars,
                   workerVars, mainVars>>
handleZoomAboutOrigin(newZoomIndex, screenPoint) ==
    /\ IF newZoomIndex = zoomIndex
         THEN UNCHANGED <<zoomIndex, pan>>
         ELSE LET clampedNewZoomIndex ==
                      Max(minZoomIndex, Min(newZoomIndex, dataNumLevels - 1))
                  shift == zoomIndex - clampedNewZoomIndex
              IN  /\ zoomIndex' = clampedNewZoomIndex
                  /\ pan' = clampPan([x |-> DivPow2(pan.x, shift),
                                      y |-> DivPow2(pan.y, shift)],
                                     WorldSize(clampedNewZoomIndex), viewportSize)
    /\ UNCHANGED <<minZoomIndex, viewportSize, isInitialized, renderVars,
                   workerVars, mainVars>>
zoomAfterUnclamped(z, p, newZoomIndex, screenPoint) ==
    IF newZoomIndex = z
      THEN [zoomIndex |-> z, pan |-> p]
      ELSE [zoomIndex |-> newZoomIndex,
            pan |-> clampPan(p, WorldSize(zoomIndex), viewportSize)]
\* what handleZoom(newZoomIndex, screenPoint) commits when the explorer is at
\* level z with pan p
zoomAfterInAboutOrigin(z, p, newZoomIndex, screenPoint) ==
    IF newZoomIndex = z
      THEN [zoomIndex |-> z, pan |-> p]
      ELSE LET clampedNewZoomIndex ==
                   Max(minZoomIndex, Min(newZoomIndex, dataNumLevels - 1))
               shift == z - clampedNewZoomIndex
               about == IF shift < 0 THEN [x |-> 0, y |-> 0] ELSE screenPoint
               newPanX == DivPow2(p.x + about.x, shift) - about.x
               newPanY == DivPow2(p.y + about.y, shift) - about.y
           IN  [zoomIndex |-> clampedNewZoomIndex,
                pan |-> clampPan([x |-> newPanX, y |-> newPanY],
                                 WorldSize(clampedNewZoomIndex), viewportSize)]
zoomAfter(z, p, newZoomIndex, screenPoint) ==
    IF newZoomIndex = z
      THEN [zoomIndex |-> z, pan |-> p]
      ELSE LET clampedNewZoomIndex ==
                   Max(minZoomIndex, Min(newZoomIndex, dataNumLevels - 1))
               \* zoomRatio = oldScale / newScale = 2 ** (new - old)
               shift == z - clampedNewZoomIndex
               newPanX == DivPow2(p.x + screenPoint.x, shift) - screenPoint.x
               newPanY == DivPow2(p.y + screenPoint.y, shift) - screenPoint.y
           IN  [zoomIndex |-> clampedNewZoomIndex,
                pan |-> clampPan([x |-> newPanX, y |-> newPanY],
                                 WorldSize(clampedNewZoomIndex), viewportSize)]

\* handleZoom(newZoomIndex, screenPoint)
handleZoom(newZoomIndex, screenPoint) ==
    /\ zoomIndex' = zoomAfter(zoomIndex, pan, newZoomIndex, screenPoint).zoomIndex
    /\ pan' = zoomAfter(zoomIndex, pan, newZoomIndex, screenPoint).pan
    /\ UNCHANGED <<minZoomIndex, viewportSize, isInitialized, renderVars,
                   workerVars, mainVars>>

Directions == {"up", "down", "left", "right"}

panAfterHalfViewport(p, direction) ==
    LET halfWidth  == ExactDiv(viewportSize.width, 2)
        halfHeight == ExactDiv(viewportSize.height, 2)
        newPan == [x |-> CASE direction = "left"  -> p.x - halfWidth
                           [] direction = "right" -> p.x + halfWidth
                           [] OTHER -> p.x,
                   y |-> CASE direction = "up"   -> p.y - halfHeight
                           [] direction = "down" -> p.y + halfHeight
                           [] OTHER -> p.y]
    IN  clampPan(newPan, WorldSize(zoomIndex), viewportSize)
panAfterUnclamped(p, direction) ==
    LET quarterWidth  == ExactDiv(viewportSize.width, 4)
        quarterHeight == ExactDiv(viewportSize.height, 4)
    IN  [x |-> CASE direction = "left"  -> p.x - quarterWidth
                 [] direction = "right" -> p.x + quarterWidth
                 [] OTHER -> p.x,
         y |-> CASE direction = "up"   -> p.y - quarterHeight
                 [] direction = "down" -> p.y + quarterHeight
                 [] OTHER -> p.y]
\* what handlePan(direction) commits when the pan is p
panAfter(p, direction) ==
    LET quarterWidth  == ExactDiv(viewportSize.width, 4)
        quarterHeight == ExactDiv(viewportSize.height, 4)
        newPan == [x |-> CASE direction = "left"  -> p.x - quarterWidth
                           [] direction = "right" -> p.x + quarterWidth
                           [] OTHER -> p.x,
                   y |-> CASE direction = "up"   -> p.y - quarterHeight
                           [] direction = "down" -> p.y + quarterHeight
                           [] OTHER -> p.y]
    IN  clampPan(newPan, WorldSize(zoomIndex), viewportSize)

\* handlePan(direction)
handlePan(direction) ==
    /\ pan' = panAfter(pan, direction)
    /\ UNCHANGED <<zoomIndex, minZoomIndex, viewportSize, isInitialized,
                   renderVars, workerVars, mainVars>>

\* the render's derived values
canPanX == WorldSize(zoomIndex).width > viewportSize.width
canPanY == WorldSize(zoomIndex).height > viewportSize.height
disableLeft == ~canPanX \/ pan.x <= 0
disableRight ==
    ~canPanX \/ pan.x >= WorldSize(zoomIndex).width - viewportSize.width - Sub
disableUp == ~canPanY \/ pan.y <= 0
disableDown ==
    ~canPanY \/ pan.y >= WorldSize(zoomIndex).height - viewportSize.height - Sub
\* displayedZoom = 2 ** (zoomIndex - minZoomIndex) > 1
showPanControls == zoomIndex > minZoomIndex

\* a click on one of the four PanButtons
PanButton(direction) ==
    /\ Mounted
    /\ showPanControls
    /\ CASE direction = "up"    -> ~disableUp
         [] direction = "down"  -> ~disableDown
         [] direction = "left"  -> ~disableLeft
         [] direction = "right" -> ~disableRight
    /\ handlePan(direction)

viewportCentre ==
    [x |-> ExactDiv(viewportSize.width, 2), y |-> ExactDiv(viewportSize.height, 2)]

\* the minus button; disabled={zoomIndex <= minZoomIndex}
ZoomOutButton ==
    /\ Mounted
    /\ ~(zoomIndex <= minZoomIndex)
    /\ handleZoom(zoomIndex - 1, viewportCentre)

\* the plus button; disabled={zoomIndex >= numLevels - 1}
ZoomInButton ==
    /\ Mounted
    /\ ~(zoomIndex >= dataNumLevels - 1)
    /\ handleZoom(zoomIndex + 1, viewportCentre)

\* the places of the container that are clicked, in quarters of its sides
ClickQuarters == {0, 1, 4}

onClickIgnoringShift(shiftKey, qx, qy) ==
    /\ Mounted
    /\ viewportSize.width > 0
    /\ viewportSize.height > 0
    /\ LET screenPoint == [x |-> qx * ExactDiv(viewportSize.width, 4),
                           y |-> qy * ExactDiv(viewportSize.height, 4)]
       IN  IF zoomIndex < dataNumLevels - 1
             THEN handleZoom(zoomIndex + 1, screenPoint)
             ELSE UNCHANGED vars
\* onClick of the container, at a point inside it
onClick(shiftKey, qx, qy) ==
    /\ Mounted
    /\ viewportSize.width > 0
    /\ viewportSize.height > 0
    /\ LET screenPoint == [x |-> qx * ExactDiv(viewportSize.width, 4),
                           y |-> qy * ExactDiv(viewportSize.height, 4)]
       IN  IF shiftKey
             THEN IF zoomIndex > minZoomIndex
                    THEN handleZoom(zoomIndex - 1, screenPoint)
                    ELSE UNCHANGED vars
             ELSE IF zoomIndex < dataNumLevels - 1
                    THEN handleZoom(zoomIndex + 1, screenPoint)
                    ELSE UNCHANGED vars

\* handleZoomOutFully
handleZoomOutFully ==
    /\ Mounted
    /\ isInitialized' = FALSE
    /\ UNCHANGED <<zoomIndex, minZoomIndex, pan, viewportSize, renderVars,
                   workerVars, mainVars>>

Next ==
    \/ \E s \in Sources : GenerateTiles(s[1], s[2])
    \/ Decode
    \/ TileLevel
    \/ TilesResolved
    \/ Downsample
    \/ PostDone
    \/ Throw
    \/ PostError
    \/ OnMessage
    \/ \E frame \in Frames : Resize(frame)
    \/ InitEffect
    \/ ZoomInButton
    \/ ZoomOutButton
    \/ \E shiftKey \in BOOLEAN, qx \in ClickQuarters, qy \in ClickQuarters :
          onClick(shiftKey, qx, qy)
    \/ \E direction \in Directions : PanButton(direction)
    \/ handleZoomOutFully

Spec == Init /\ [][Next]_vars

(***************************************************************************)
(* The offline builder: generate_tiles_manually of pythonScript.           *)
(***************************************************************************)
\* num_levels (max_dim > 0 for every image)
num_levels(width, height) ==
    CeilLog2Ratio(Max(width, height), TILE_SIZE) + 1

\* what current_image.resize(...) does when a target side is 0 pixels: the
\* script does not decide it and an image has no side of 0 pixels, so the
\* call either raises or gives that side one pixel
ResizeOutcomes == {"raises", "one_pixel"}

\* the level loop from level lv down, current_image having the given size;
\* acc holds the levels written so far
RECURSIVE level_loop(_, _, _, _)
level_loop(lv, size, outcome, acc) ==
    IF lv < 0 THEN acc
    ELSE LET cols == CeilDiv(size.width, TILE_SIZE)
             rows == CeilDiv(size.height, TILE_SIZE)
             written ==
                 [acc EXCEPT !.dims = (lv :> size) @@ acc.dims,
                             !.keys = (lv :> ((0..(rows - 1)) \X (0..(cols - 1))))
                                        @@ acc.keys]
             next_width  == size.width \div 2
             next_height == size.height \div 2
         IN  IF lv = 0 THEN written
             ELSE IF next_width >= 1 /\ next_height >= 1
               THEN level_loop(lv - 1,
                               [width |-> next_width, height |-> next_height],
                               outcome, written)
             ELSE IF outcome = "raises"
               THEN [written EXCEPT !.failed = TRUE]
               ELSE level_loop(lv - 1,
                               [width |-> Max(1, next_width),
                                height |-> Max(1, next_height)],
                               outcome, written)

\* generate_tiles_manually for an image of the given size
generate_tiles_manually(width, height, outcome) ==
    level_loop(num_levels(width, height) - 1,
               [width |-> width, height |-> height], outcome,
               [failed |-> FALSE, numLevels |-> num_levels(width, height),
                dims |-> <<>>, keys |-> <<>>])

(***************************************************************************)
(* The explorer on its own: ImageExplorer mounted on a pyramid, with the   *)
(* frame its ResizeObserver reported, before its initialisation effect has *)
(* run.  The pyramids are those of a tile set loaded from an archive that  *)
(* holds a manifest (no worker runs on that path); the viewports are       *)
(* observed frames and the 600 x 400 viewport of the documented scenario.  *)
(***************************************************************************)
\* originalDimensions of the pyramids the explorer is mounted on
ExplorerSources == {<<4000, 3000>>, <<256, 256>>}

\* the data prop for a source: the manifest's fields, and no tile
PyramidOf(w, h) ==
    [tiles |-> <<>>,
     originalDimensions |-> [width |-> w, height |-> h],
     numLevels |-> NumLevelsOf(w, h)]

\* the viewport sizes the explorer is started with, for the mounted pyramid
ExplorerViewports ==
    IF originalDimensions = [width |-> 4000, height |-> 3000]
      THEN {[width |-> 600 * Sub, height |-> 400 * Sub]}
      ELSE {FrameOf(100, 100), FrameOf(400, 400)}

ExplorerInit ==
    /\ wpc = "idle"
    /\ image = NoSize
    /\ numLevels = 0
    /\ level = 0
    /\ currentCanvas = NoSize
    /\ allTiles = <<>>
    /\ tilePromises = <<>>
    /\ levelDims = <<>>
    /\ posted = <<>>
    /\ handled = 0
    /\ isProcessing = FALSE
    /\ progressMessage = NoData
    /\ generatedBlobs = <<>>
    /\ generatedData \in {PyramidOf(s[1], s[2]) : s \in ExplorerSources}
    /\ explorerKey = 1
    /\ mode = "load"
    /\ imageFile = NoData
    /\ splitterGeneratedData = generatedData
    /\ zipLoad = [pc |-> "idle"]
    /\ download = [pc |-> "idle"]
    /\ zoomIndex = 0
    /\ minZoomIndex = 0
    /\ pan = [x |-> 0, y |-> 0]
    /\ viewportSize \in ExplorerViewports
    /\ isInitialized = FALSE
    /\ imageCache = <<>>
    /\ fetches = {}
    /\ canvasRef = BlankCanvas
    /\ frameDeps = InitialDeps
    /\ isShiftPressed = FALSE

\* the places of the container that are clicked: its corner and its centre
ExplorerClicks == {0, 2}

ExplorerNext ==
    \/ InitEffect
    \/ ZoomInButton
    \/ ZoomOutButton
    \/ \E shiftKey \in BOOLEAN, q \in ExplorerClicks : onClick(shiftKey, q, q)
    \/ \E direction \in Directions : PanButton(direction)
    \/ handleZoomOutFully

ExplorerSpec == ExplorerInit /\ [][ExplorerNext]_vars

\* ImageExplorer just mounted on the pyramid data, its viewport being size
MountedOn(data, size) ==
    /\ wpc = "idle"
    /\ image = NoSize
    /\ numLevels = 0
    /\ level = 0
    /\ currentCanvas = NoSize
    /\ allTiles = <<>>
    /\ tilePromises = <<>>
    /\ levelDims = <<>>
    /\ posted = <<>>
    /\ handled = 0
    /\ isProcessing = FALSE
    /\ progressMessage = NoData
    /\ generatedBlobs = <<>>
    /\ generatedData = data
    /\ explorerKey = 1
    /\ mode = "load"
    /\ imageFile = NoData
    /\ splitterGeneratedData = data
    /\ zipLoad = [pc |-> "idle"]
    /\ download = [pc |-> "idle"]
    /\ zoomIndex = 0
    /\ minZoomIndex = 0
    /\ pan = [x |-> 0, y |-> 0]
    /\ viewportSize = size
    /\ isInitialized = FALSE
    /\ imageCache = <<>>
    /\ fetches = {}
    /\ canvasRef = BlankCanvas
    /\ frameDeps = InitialDeps
    /\ isShiftPressed = FALSE

\* the explorer with its ResizeObserver, from its mounting on.  The effect on
\* [isInitialized, getInitialState] is run by React after every render that
\* changed one of the two, so it cannot stay due for ever.
ObservedSources == {<<512, 512>>, <<512, 256>>}
ObservedInit ==
    \E s \in ObservedSources : MountedOn(PyramidOf(s[1], s[2]), NoSize)
ObservedNext ==
    \/ ExplorerNext
    \/ \E frame \in Frames : Resize(frame)
ObservedSpec == ObservedInit /\ [][ObservedNext]_vars /\ WF_vars(InitEffect)

(***************************************************************************)
(* ImageExplorer: the draw effect and the images it awaits.                *)
(***************************************************************************)
dataTiles == generatedData.tiles
\* Math.floor(a / b) and Math.ceil(a / b) for b > 0
Floor(a, b) == a \div b
Ceil(a, b) == 0 - ((0 - a) \div b)

\* the dependencies of the draw effect; tiles is the same for the whole life
\* of an instance
Deps ==
    [isInitialized |-> isInitialized, pan |-> pan, zoomIndex |-> zoomIndex,
     viewportSize |-> viewportSize]
\* the guard of the draw effect: a frame is composed
FrameComposed == isInitialized /\ viewportSize.width # 0
\* the draw effect is due: a render changed one of its dependencies
DrawDue == Mounted /\ Deps # frameDeps

endColRoundedDown(p) == Floor(p.x + viewportSize.width, TILE_SIZE * Sub)
\* the cells <<y, x>> the two loops visit when the pan is p
startCol(p) == Floor(p.x, TILE_SIZE * Sub)
endCol(p) == Ceil(p.x + viewportSize.width, TILE_SIZE * Sub)
startRow(p) == Floor(p.y, TILE_SIZE * Sub)
endRow(p) == Ceil(p.y + viewportSize.height, TILE_SIZE * Sub)
Visited(p) == (startRow(p)..(endRow(p) - 1)) \X (startCol(p)..(endCol(p) - 1))

\* `${zoomIndex}_${y}_${x}`
tileKey(z, k) == <<z, k[1], k[2]>>
\* currentTiles[`${y}_${x}`] is truthy, where currentTiles is
\* tiles[zoomIndex] || {}
HasTile(z, k) == z \in DOMAIN dataTiles /\ k \in DOMAIN dataTiles[z]
\* currentTiles[`${y}_${x}`]: the object URL of the blob at that place of the
\* table, each blob having a URL of its own
tileSrc(z, k) == [level |-> z, key |-> k, blob |-> dataTiles[z][k]]
\* `tiles/${zoomIndex}/${y}_${x}.png` of the standalone renderer
standaloneTileSrc(z, k) == [level |-> z, key |-> k]

\* draw(img) of the frame with pan p, for the cell k: the image, the place
\* in pixels and the extent given to ctx.drawImage
draw(img, k, p) ==
    [img    |-> img,
     x      |-> Floor(k[2] * TILE_SIZE * Sub - p.x, Sub),
     y      |-> Floor(k[1] * TILE_SIZE * Sub - p.y, Sub),
     width  |-> TILE_SIZE,
     height |-> TILE_SIZE]

\* imageCache.current[tileKey] && imageCache.current[tileKey].complete: an
\* image is put in the cache by its onload, so it is complete
CacheHit(z, k) == tileKey(z, k) \in DOMAIN imageCache
\* the visited cells of the current frame that have a tile, by cache state
Hits == {k \in Visited(pan) : HasTile(zoomIndex, k) /\ CacheHit(zoomIndex, k)}
Misses == {k \in Visited(pan) : HasTile(zoomIndex, k) /\ ~CacheHit(zoomIndex, k)}
\* the visited cells the standalone renderer makes an image for: it has no
\* table to look the cell up in
StandaloneMisses == {k \in Visited(pan) : ~CacheHit(zoomIndex, k)}
\* the cell the loops visit last among the given ones
LastOf(cells) ==
    CHOOSE k \in cells :
        \A j \in cells : j[1] < k[1] \/ (j[1] = k[1] /\ j[2] <= k[2])

NewImageOfFirstTile(z, k, p) ==
    [tileKey |-> tileKey(z, k), src |-> tileSrc(z, <<0, 0>>), cell |-> k, pan |-> p]
\* new Image() with its src and its onload: what the closure holds
NewImage(z, k, p) ==
    [tileKey |-> tileKey(z, k), src |-> tileSrc(z, k), cell |-> k, pan |-> p]
\* the images awaited at once that are tried
MaxInFlight == 2

\* what the synchronous part of a frame leaves on the canvas
FramePaints == {draw(imageCache[tileKey(zoomIndex, k)], k, pan) : k \in Hits}
\* the draw effect, run after a render that changed a dependency
DrawEffect ==
    /\ DrawDue
    /\ frameDeps' = Deps
    /\ IF FrameComposed
         THEN \* ctx.clearRect, then the two loops
              /\ canvasRef' =
                    [paints |-> FramePaints,
                     top    |-> IF Hits = {} THEN NoData
                                ELSE draw(imageCache[tileKey(zoomIndex, LastOf(Hits))],
                                          LastOf(Hits), pan)]
              /\ fetches' = fetches \cup {NewImage(zoomIndex, k, pan) : k \in Misses}
              /\ Cardinality(fetches') <= MaxInFlight
         ELSE UNCHANGED <<fetches, canvasRef>>
    /\ UNCHANGED <<zoomIndex, minZoomIndex, pan, viewportSize, isInitialized,
                   imageCache, isShiftPressed, workerVars, mainVars>>

\* the key img.onload writes the cache under
onloadKeyOfCurrentLevel(f) == <<zoomIndex, f.tileKey[2], f.tileKey[3]>>
onloadKey(f) == f.tileKey
\* img.onload of an awaited image
onload(f) ==
    /\ f \in fetches
    /\ fetches' = fetches \ {f}
    /\ imageCache' = (onloadKey(f) :> [src |-> f.src]) @@ imageCache
    /\ canvasRef' = [paints |-> canvasRef.paints \cup {draw([src |-> f.src], f.cell, f.pan)},
                     top    |-> draw([src |-> f.src], f.cell, f.pan)]
    /\ UNCHANGED <<zoomIndex, minZoomIndex, pan, viewportSize, isInitialized,
                   frameDeps, isShiftPressed, workerVars, mainVars>>
FetchFailsAndIsCached(f) ==
    /\ f \in fetches
    /\ fetches' = fetches \ {f}
    /\ imageCache' = (f.tileKey :> [src |-> NoData]) @@ imageCache
    /\ UNCHANGED <<zoomIndex, minZoomIndex, pan, viewportSize, isInitialized,
                   canvasRef, frameDeps, isShiftPressed, workerVars, mainVars>>
\* the image fails to load: it has no onerror
FetchFails(f) ==
    /\ f \in fetches
    /\ fetches' = fetches \ {f}
    /\ UNCHANGED <<zoomIndex, minZoomIndex, pan, viewportSize, isInitialized,
                   imageCache, canvasRef, frameDeps, isShiftPressed, workerVars,
                   mainVars>>

\* the data prop the App passes for a source: every level with its grid of
\* tiles, as the worker's 'done' message holds them
TiledPyramidOf(w, h) ==
    LET n == NumLevelsOf(w, h)
    IN  [tiles |->
            [lv \in 0..(n - 1) |->
                [k \in GridKeys(Halved(w, n - 1 - lv), Halved(h, n - 1 - lv)) |->
                    TileBlob(k[1], k[2], Halved(w, n - 1 - lv), Halved(h, n - 1 - lv))]],
         originalDimensions |-> [width |-> w, height |-> h],
         numLevels |-> n]


(***************************************************************************)
(* The archive of a tile set: handleExport writes it, handleZipFile reads  *)
(* it.  A path is the sequence of its parts between slashes, so that       *)
(* name.split('/') is the path itself; the path of a directory entry ends  *)
(* with a slash and so with an empty part.  Numbers inside a text are      *)
(* their decimal digits.                                                   *)
(***************************************************************************)
\* values of JavaScript that a manifest can hold
Undefined == [t |-> "undefined"]
Null == [t |-> "null"]
JsNumber(n) == [t |-> "number", n |-> n]
JsObject(members) == [t |-> "object", members |-> members]
\* the numbers a text of digits is looked up in
Numerals == (0 - 2)..(MaxDim + 2)

\* JSON.stringify of a number, and of { width, height }
NumberText(n) == [t |-> "number", digits |-> ToString(n)]
DimensionsText(d) ==
    [t |-> "object",
     members |-> [f \in DOMAIN d |-> NumberText(d[f])]]
\* `window.imageData = ${JSON.stringify(imageData, null, 2)};`
ManifestText(data) ==
    [prefix |-> "window.imageData =",
     json |-> [t |-> "object",
               members |-> [f \in {"originalDimensions", "numLevels"} |->
                   IF f = "numLevels"
                     THEN NumberText(data.numLevels)
                     ELSE DimensionsText(data.originalDimensions)]],
     semicolon |-> TRUE]

\* `${y}_${x}`, or the free text a loaded key is
KeyText(k) == IF Len(k) = 2 THEN ToString(k[1]) \o "_" \o ToString(k[2]) ELSE k[1]
\* the entry levelFolder.file(`${key}.png`, blob)
TileEntry(lv, k, blob) ==
    [dir |-> FALSE, name |-> <<"tiles", ToString(lv), KeyText(k) \o ".png">>,
     blob |-> blob]
FolderEntry(path) == [dir |-> TRUE, name |-> path \o <<"">>, blob |-> NoData]
IndexHtml == [dir |-> FALSE, name |-> <<"index.html">>, blob |-> [html |-> TRUE]]

\* the archive handleExport builds from generatedData and
\* generatedBlobsRef.current
ExportedZip(data, blobs) ==
    [manifest |-> ManifestText(data),
     entries |->
        {FolderEntry(<<"tiles">>), IndexHtml}
          \cup {FolderEntry(<<"tiles", ToString(lv)>>) : lv \in DOMAIN blobs}
          \cup UNION {{TileEntry(lv, k, blobs[lv][k]) : k \in DOMAIN blobs[lv]} :
                        lv \in DOMAIN blobs}]

\* imageDataStr.replace('window.imageData =', '').trim().replace(/;$/, '')
\* parses when nothing but the JSON text is left
Parses(text) ==
    /\ text.prefix \in {"window.imageData =", ""}
    /\ text.json.t # "garbage"
\* JSON.parse of a number, of an object of numbers, of the manifest
ParseNumber(j) == JsNumber(CHOOSE n \in Numerals : ToString(n) = j.digits)
ParseMember(j) ==
    CASE j.t = "number" -> ParseNumber(j)
      [] j.t = "null"   -> Null
      [] j.t = "object" -> JsObject([f \in DOMAIN j.members |-> ParseNumber(j.members[f])])
ParseManifest(text) ==
    IF text.json.t = "object"
      THEN JsObject([f \in DOMAIN text.json.members |-> ParseMember(text.json.members[f])])
      ELSE ParseMember(text.json)

\* object.name, and !value
Get(object, name) ==
    IF name \in DOMAIN object.members THEN object.members[name] ELSE Undefined
Falsy(v) == v.t \in {"undefined", "null"} \/ (v.t = "number" /\ v.n = 0)

\* the steps of handleZipFile up to 'Extracting tiles...' go through: the
\* file is there, JSON.parse returns, the destructuring finds an object and
\* neither value is falsy
ManifestAccepted(zip) ==
    /\ zip.manifest # NoData
    /\ Parses(zip.manifest)
    /\ LET imageData == ParseManifest(zip.manifest)
       IN  /\ imageData.t = "object"
           /\ ~Falsy(Get(imageData, "originalDimensions"))
           /\ ~Falsy(Get(imageData, "numLevels"))

\* the value of a parsed number or object of numbers as the explorer reads it
Plain(v) ==
    IF v.t = "number" THEN v.n ELSE [f \in DOMAIN v.members |-> v.members[f].n]

\* Number(pathParts[1]) and isNaN(level)
LevelNames == 0..(NumLevelsOf(MaxDim + 1, MaxDim + 1))
isNaN(part) == part # "" /\ \A n \in LevelNames : ToString(n) # part
Number(part) == IF part = "" THEN 0 ELSE CHOOSE n \in LevelNames : ToString(n) = part

\* pathParts[2].replace('.png', ''), kept as a grid key when it is one
GridKeyTexts == (0..(CeilDiv(MaxDim + 1, TILE_SIZE))) \X (0..(CeilDiv(MaxDim + 1, TILE_SIZE)))
ReplacePng(part) ==
    IF \E k \in GridKeyTexts : KeyText(k) \o ".png" = part
      THEN CHOOSE k \in GridKeyTexts : KeyText(k) \o ".png" = part
      ELSE <<part>>

\* content.file(/^tiles\//) without the entries the callback returns from
PickedFiles(zip) ==
    {e \in zip.entries :
        /\ ~e.dir
        /\ Len(e.name) >= 2 /\ e.name[1] = "tiles"
        /\ Len(e.name) = 3
        /\ ~isNaN(e.name[2])}
\* tileBlobs after Promise.all
ExtractedBlobs(zip) ==
    LET files == PickedFiles(zip)
        levels == {Number(e.name[2]) : e \in files}
    IN  [lv \in levels |->
           LET ofLevel == {e \in files : Number(e.name[2]) = lv}
           IN  [k \in {ReplacePng(e.name[3]) : e \in ofLevel} |->
                  (CHOOSE e \in ofLevel : ReplacePng(e.name[3]) = k).blob]]
\* finalData of handleZipFile
LoadedData(zip) ==
    LET imageData == ParseManifest(zip.manifest)
    IN  [tiles |-> TileUrls(ExtractedBlobs(zip)),
         originalDimensions |-> Plain(Get(imageData, "originalDimensions")),
         numLevels |-> Plain(Get(imageData, "numLevels"))]

\* resetState()
resetState ==
    /\ splitterGeneratedData' = NoData
    /\ imageFile' = NoData
    /\ generatedBlobs' = NoBlobs

\* one of the two mode buttons: setMode(value); resetState()
ModeButton(value) ==
    /\ mode' = value
    /\ resetState
    /\ UNCHANGED <<workerVars, explorerVars, handled, isProcessing,
                   progressMessage, generatedData, explorerKey, zipLoad,
                   download>>

\* handleFileChange(file) in load mode, from the drop zone that is rendered
\* while nothing is processing: a file that is no .zip is refused, a .zip
\* starts handleZipFile, which runs up to its first await
NotAZip == [type |-> "text"]
\* number of explorers mounted after which no further archive is dropped
MaxMounts == 2
handleFileChange(file) ==
    /\ mode = "load"
    /\ explorerKey < MaxMounts
    /\ ~isProcessing
    \* resetState(), and setImageFile(file) after it for a .zip
    /\ splitterGeneratedData' = NoData
    /\ generatedBlobs' = NoBlobs
    /\ IF file = NotAZip
         THEN /\ imageFile' = NoData
              /\ UNCHANGED <<isProcessing, progressMessage, zipLoad>>
         ELSE /\ imageFile' = [type |-> "zip"]
              /\ isProcessing' = TRUE
              /\ progressMessage' = [type |-> "reading"]
              /\ zipLoad' = [pc |-> "manifest", zip |-> file.zip]
    /\ UNCHANGED <<workerVars, explorerVars, handled, generatedData,
                   explorerKey, mode, download>>

\* handleZipFile from loadAsync to setProgressMessage('Extracting tiles...')
ReadManifest ==
    /\ zipLoad.pc = "manifest"
    /\ ManifestAccepted(zipLoad.zip)
    /\ progressMessage' = [type |-> "extracting"]
    /\ zipLoad' = [zipLoad EXCEPT !.pc = "tiles"]
    /\ UNCHANGED <<workerVars, explorerVars, handled, isProcessing,
                   generatedBlobs, generatedData, explorerKey,
                   splitterGeneratedData, mode, imageFile, download>>

\* the same steps when one of them throws: catch { alert } finally { ... }
RejectManifest ==
    /\ zipLoad.pc = "manifest"
    /\ ~ManifestAccepted(zipLoad.zip)
    /\ isProcessing' = FALSE
    /\ progressMessage' = NoData
    /\ zipLoad' = [pc |-> "failed"]
    /\ UNCHANGED <<workerVars, explorerVars, handled, generatedBlobs,
                   generatedData, explorerKey, splitterGeneratedData, mode,
                   imageFile, download>>

\* Promise.all(promises) fulfilled: the rest of the try block, with
\* handleTilesGenerated of the App, and the finally block
ExtractTiles ==
    /\ zipLoad.pc = "tiles"
    /\ generatedBlobs' = ExtractedBlobs(zipLoad.zip)
    /\ splitterGeneratedData' = LoadedData(zipLoad.zip)
    /\ generatedData' = LoadedData(zipLoad.zip)
    /\ explorerKey' = explorerKey + 1
    /\ isProcessing' = FALSE
    /\ progressMessage' = NoData
    /\ zipLoad' = [pc |-> "loaded"]
    \* key={explorerKey}: a fresh ImageExplorer is mounted
    /\ zoomIndex' = 0
    /\ minZoomIndex' = 0
    /\ pan' = [x |-> 0, y |-> 0]
    /\ viewportSize' = NoSize
    /\ isInitialized' = FALSE
    /\ MountRenderer
    /\ UNCHANGED <<workerVars, handled, mode, imageFile, download>>

\* tileFile.async('blob') rejects for an entry that cannot be inflated
ExtractFails ==
    /\ zipLoad.pc = "tiles"
    /\ PickedFiles(zipLoad.zip) # {}
    /\ isProcessing' = FALSE
    /\ progressMessage' = NoData
    /\ zipLoad' = [pc |-> "failed"]
    /\ UNCHANGED <<workerVars, explorerVars, handled, generatedBlobs,
                   generatedData, explorerKey, splitterGeneratedData, mode,
                   imageFile, download>>

\* handleExport up to its first await; the button is disabled while
\* something is processing.  The callback keeps the generatedData it was
\* created with.
handleExport ==
    /\ ~isProcessing
    /\ splitterGeneratedData # NoData
    /\ imageFile # NoData
    /\ generatedBlobs # NoBlobs
    /\ progressMessage' = [type |-> "preparing"]
    /\ isProcessing' = TRUE
    /\ download' = [pc |-> "preparing", data |-> splitterGeneratedData]
    /\ UNCHANGED <<workerVars, explorerVars, handled, generatedBlobs,
                   generatedData, explorerKey, splitterGeneratedData, mode,
                   imageFile, zipLoad>>

\* the rest of handleExport: the archive is built from the generatedData of
\* the callback and from generatedBlobsRef.current as it is by now (for...in
\* over null runs no iteration), and is saved
SaveZip ==
    /\ download.pc = "preparing"
    /\ download' = [pc |-> "saved", data |-> download.data,
                    zip |-> ExportedZip(download.data,
                               IF generatedBlobs = NoBlobs THEN <<>> ELSE generatedBlobs)]
    /\ isProcessing' = FALSE
    /\ progressMessage' = NoData
    /\ UNCHANGED <<workerVars, explorerVars, handled, generatedBlobs,
                   generatedData, explorerKey, splitterGeneratedData, mode,
                   imageFile, zipLoad>>

\* the manifests of the archives that are offered besides the saved one
Dims256 == [width |-> 256, height |-> 256]
ObjectText(members) == [t |-> "object", members |-> members]
ManifestOf(prefix, json) == [prefix |-> prefix, json |-> json, semicolon |-> TRUE]
ForeignManifests ==
    {NoData,
     ManifestOf("window.imageData =", [t |-> "garbage"]),
     ManifestOf("window.imageData =", [t |-> "null"]),
     ManifestOf("var imageData =", ManifestText([originalDimensions |-> Dims256, numLevels |-> 2]).json),
     ManifestOf("window.imageData =", ObjectText([f \in {"numLevels"} |-> NumberText(2)])),
     ManifestOf("window.imageData =", ObjectText([f \in {"originalDimensions"} |-> DimensionsText(Dims256)])),
     ManifestText([originalDimensions |-> Dims256, numLevels |-> 0]),
     ManifestText([originalDimensions |-> <<>>, numLevels |-> 2]),
     ManifestText([originalDimensions |-> [width |-> 256], numLevels |-> 2]),
     ManifestText([originalDimensions |-> Dims256, numLevels |-> 2])}
\* their entries: the tiles of a 256 x 256 image, and entries the loader
\* has to pass over
ForeignBlob == [width |-> TILE_SIZE, height |-> TILE_SIZE,
                sWidth |-> TILE_SIZE, sHeight |-> TILE_SIZE]
ForeignEntries ==
    {TileEntry(0, <<0, 0>>, ForeignBlob),
     TileEntry(1, <<0, 0>>, ForeignBlob), TileEntry(1, <<0, 1>>, ForeignBlob),
     TileEntry(1, <<1, 0>>, ForeignBlob), TileEntry(1, <<1, 1>>, ForeignBlob),
     FolderEntry(<<"tiles">>), FolderEntry(<<"tiles", "1">>),
     [dir |-> FALSE, name |-> <<"tiles", "readme.txt">>, blob |-> NoData],
     [dir |-> FALSE, name |-> <<"tiles", "thumbs", "0_0.png">>, blob |-> ForeignBlob],
     [dir |-> FALSE, name |-> <<"tiles", "1", "old", "0_0.png">>, blob |-> ForeignBlob],
     IndexHtml}
ForeignZips == {[manifest |-> m, entries |-> ForeignEntries] : m \in ForeignManifests}
\* the files the user can drop
Files ==
    {NotAZip}
      \cup {[type |-> "zip", zip |-> z] : z \in ForeignZips}
      \cup (IF download.pc = "saved" THEN {[type |-> "zip", zip |-> download.zip]} ELSE {})

\* the images that are tiled before an export
ArchiveSources == {<<64, 64>>, <<301, 257>>}

ArchiveNext ==
    \/ \E s \in ArchiveSources : GenerateTiles(s[1], s[2])
    \/ Decode
    \/ TileLevel
    \/ TilesResolved
    \/ Downsample
    \/ PostDone
    \/ Throw
    \/ PostError
    \/ OnMessage
    \/ \E value \in {"generate", "load"} : ModeButton(value)
    \/ \E file \in Files : handleFileChange(file)
    \/ ReadManifest
    \/ RejectManifest
    \/ ExtractTiles
    \/ ExtractFails
    \/ handleExport
    \/ SaveZip

ArchiveSpec == Init /\ [][ArchiveNext]_vars

\* the explorer with its renderer, mounted on a pyramid of two levels, after
\* the ResizeObserver reported a frame narrower than the finer level (that of
\* a display area of 200 x 200) and before the initialisation effect has run
RenderSources == {<<256, 128>>}
RenderInit ==
    \E s \in RenderSources :
        MountedOn(TiledPyramidOf(s[1], s[2]), FrameOf(200, 200))
\* the PanButton that is clicked
RenderDirections == {"right"}
RenderNext ==
    \/ DrawEffect
    \/ \E f \in fetches : onload(f)
    \/ \E f \in fetches : FetchFails(f)
    \/ ~DrawDue /\ \E frame \in Frames : Resize(frame)
    \/ ~DrawDue /\ InitEffect
    \/ ~DrawDue /\ ZoomInButton
    \/ ~DrawDue /\ ZoomOutButton
    \/ ~DrawDue /\ \E direction \in RenderDirections : PanButton(direction)
    \/ ~DrawDue /\ handleZoomOutFully
RenderSpec == RenderInit /\ [][RenderNext]_vars

\* a session of the explorer and the one after it: the explorer shows the
\* first pyramid; then an archive exported from an image of one tile is
\* dropped in load mode, and while it is read nothing else is done; its
\* pyramid replaces the first.  The container is clicked at its centre.
SessionSources == {<<128, 64>>}
SessionFiles ==
    {[type |-> "zip",
      zip |-> ExportedZip(TiledPyramidOf(s[1], s[2]), TiledPyramidOf(s[1], s[2]).tiles)] :
        s \in SessionSources}
SessionNext ==
    \/ ~isProcessing /\ RenderNext
    \/ ~isProcessing /\ ~DrawDue /\ \E shiftKey \in BOOLEAN : onClick(shiftKey, 2, 2)
    \/ ~DrawDue /\ \E file \in SessionFiles : handleFileChange(file)
    \/ ReadManifest
    \/ ExtractTiles
SessionSpec == RenderInit /\ [][SessionNext]_vars

(***************************************************************************)
(* Properties of the builder.                                              *)
(***************************************************************************)

IsTerminal(m) == m.type \in {"done", "error"}
Terminals == {i \in 1..Len(posted) : IsTerminal(posted[i])}
Progresses == {i \in 1..Len(posted) : posted[i].type = "progress"}
DoneData == {posted[i].data : i \in {j \in 1..Len(posted) : posted[j].type = "done"}}
InLevelLoop == wpc \in {"loop", "await", "downsample"}
\* the tiles stored or awaited, each with its level and key
StoredTiles ==
    UNION {{<<lv, k, allTiles[lv][k]>> : k \in DOMAIN allTiles[lv]} : lv \in DOMAIN allTiles}
      \cup {<<level, k, tilePromises[k]>> : k \in DOMAIN tilePromises}

\* C1: for every source with w, h >= 1 the builder's numLevels is
\* ceil(log2(max(w,h) / TILE_SIZE)) + 1, that is
\* 2^(numLevels-2) < max(w,h) / TILE_SIZE <= 2^(numLevels-1), and it is at
\* least 1.
C1_NumLevelsAtLeastOne ==
    InLevelLoop =>
        LET m == Max(image.width, image.height)
        IN  /\ numLevels >= 1
            /\ m <= TILE_SIZE * 2^(numLevels - 1)
            /\ 2 * m > TILE_SIZE * 2^(numLevels - 1)

\* C2: the bitmap tiled at level numLevels-1 has the original size, the bitmap
\* tiled at a level i < numLevels-1 has the floor-halved size of the bitmap
\* tiled at level i+1, and the levels tiled so far are numLevels-1 down to
\* the current one, without a gap.
C2_LevelDimsHalved ==
    /\ \A lv \in DOMAIN levelDims :
         /\ lv \in 0..(numLevels - 1)
         /\ \A up \in (lv + 1)..(numLevels - 1) : up \in DOMAIN levelDims
         /\ lv = numLevels - 1 => levelDims[lv] = image
         /\ lv < numLevels - 1 =>
              /\ 2 * levelDims[lv].width <= levelDims[lv + 1].width
              /\ 2 * levelDims[lv].width + 1 >= levelDims[lv + 1].width
              /\ 2 * levelDims[lv].height <= levelDims[lv + 1].height
              /\ 2 * levelDims[lv].height + 1 >= levelDims[lv + 1].height
    /\ InLevelLoop => \A lv \in DOMAIN levelDims : lv >= level
C2_Witness ==
    /\ wpc = "closed"
    /\ image = [width |-> 301, height |-> 257]
    /\ DOMAIN levelDims = {0, 1, 2}
    /\ levelDims[0] = [width |-> 75, height |-> 64]

\* C3: every tile is a TILE_SIZE x TILE_SIZE buffer, and the region copied
\* into it is min(TILE_SIZE, levelWidth - col*TILE_SIZE) wide and
\* min(TILE_SIZE, levelHeight - row*TILE_SIZE) high, both in 1..TILE_SIZE.
C3_TileBuffers ==
    \A t \in StoredTiles :
        LET lv == t[1]
            row == t[2][1]
            col == t[2][2]
            blob == t[3]
        IN  /\ blob.width = TILE_SIZE /\ blob.height = TILE_SIZE
            /\ lv \in DOMAIN levelDims
            /\ LET restW == levelDims[lv].width - col * TILE_SIZE
                   restH == levelDims[lv].height - row * TILE_SIZE
               IN  /\ blob.sWidth = (IF restW < TILE_SIZE THEN restW ELSE TILE_SIZE)
                   /\ blob.sHeight = (IF restH < TILE_SIZE THEN restH ELSE TILE_SIZE)
            /\ blob.sWidth \in 1..TILE_SIZE
            /\ blob.sHeight \in 1..TILE_SIZE
C3_Witness ==
    \E t \in StoredTiles :
        /\ t[3].sWidth < TILE_SIZE /\ t[3].sHeight < TILE_SIZE
        /\ t[2][1] > 0 /\ t[2][2] > 0

\* C4: the pyramid of a 'done' message has exactly the levels 0..numLevels-1,
\* and level i holds exactly the keys (row, col) of the grid of its bitmap,
\* ceil(height/TILE_SIZE) rows by ceil(width/TILE_SIZE) columns; the bitmap
\* of level numLevels-1 is the original image.
C4_DonePyramidComplete ==
    \A d \in DoneData :
        /\ DOMAIN d.tiles = 0..(d.numLevels - 1)
        /\ \A i \in DOMAIN d.tiles :
             LET k == d.numLevels - 1 - i
             IN  DOMAIN d.tiles[i] =
                   GridKeys(Halved(d.originalDimensions.width, k),
                            Halved(d.originalDimensions.height, k))
C4_Witness ==
    \E d \in DoneData :
        /\ d.numLevels = 3
        /\ d.originalDimensions = [width |-> 301, height |-> 257]
        /\ Cardinality(DOMAIN d.tiles[2]) = 9
        /\ Cardinality(DOMAIN d.tiles[0]) = 1

\* C5: for every source with w, h >= 1 level 0 of the built pyramid is at
\* most TILE_SIZE on both axes and is a single tile; a 1024x1024 source gives
\* 4 levels, an 8x8 grid at level 3 and a 128x128 level 0.
C5_CoarsestLevelOneTile ==
    \A d \in DoneData :
        /\ 0 \in DOMAIN d.tiles
        /\ DOMAIN d.tiles[0] = {<<0, 0>>}
        /\ levelDims[0].width <= TILE_SIZE
        /\ levelDims[0].height <= TILE_SIZE
        /\ d.originalDimensions = [width |-> 1024, height |-> 1024] =>
             /\ d.numLevels = 4
             /\ DOMAIN d.tiles[3] = (0..7) \X (0..7)
             /\ levelDims[0] = [width |-> 128, height |-> 128]

\* C6: a run posts at most one terminal message, nothing after it, and has
\* posted exactly one when the worker has closed; a 'done' carries the
\* complete pyramid; a run that failed posts no 'done', and nothing of it is
\* published (onTilesGenerated is not called).
C6_OneTerminalEvent ==
    /\ Cardinality(Terminals) <= 1
    /\ \A i \in Terminals : i = Len(posted)
    /\ wpc = "closed" => Cardinality(Terminals) = 1
    /\ wpc # "closed" => Terminals = {}
    /\ \A d \in DoneData :
         /\ DOMAIN d.tiles = 0..(d.numLevels - 1)
         /\ \A i \in DOMAIN d.tiles :
              DOMAIN d.tiles[i] = GridKeys(levelDims[i].width, levelDims[i].height)
    /\ (\E i \in Terminals : posted[i].type = "error") =>
         /\ DoneData = {}
         /\ generatedData = NoData
         /\ generatedBlobs = NoBlobs
         /\ explorerKey = 0
    /\ generatedData # NoData =>
         \E d \in DoneData : generatedData = FinalData(d) /\ handled = Len(posted)
C6_Witness ==
    /\ wpc = "closed"
    /\ handled = Len(posted)
    /\ posted[Len(posted)].type = "error"
    /\ Cardinality(Progresses) = 2
    /\ \E lv \in DOMAIN allTiles : DOMAIN allTiles[lv] # {}

C8_ZoomIndexInRange ==
    Mounted => /\ minZoomIndex <= zoomIndex
               /\ zoomIndex <= dataNumLevels - 1

\* a pan coordinate inside its legal range, or centring a small world
AxisClamped(p, world, view) ==
    IF world >= view THEN 0 <= p /\ p <= world - view
                     ELSE 2 * p = world - view
\* C9: in every Ready state, on each axis: 0 <= pan <= worldSize - viewSize
\* when the world is at least as large as the viewport, and otherwise
\* pan = (worldSize - viewSize) / 2.
C9_PanClampedWhenReady ==
    (Mounted /\ isInitialized) =>
        /\ AxisClamped(pan.x, WorldSize(zoomIndex).width, viewportSize.width)
        /\ AxisClamped(pan.y, WorldSize(zoomIndex).height, viewportSize.height)
C9_Witness ==
    /\ Mounted /\ isInitialized
    /\ zoomIndex = minZoomIndex + 2
    /\ pan.x = WorldSize(zoomIndex).width - viewportSize.width
    /\ pan.x > 0
    /\ pan.y > 0
    /\ pan.y < WorldSize(zoomIndex).height - viewportSize.height

\* the levels whose world fits the viewport on both axes
FittingLevels ==
    {i \in 0..(dataNumLevels - 1) :
        /\ WorldSize(i).width <= viewportSize.width
        /\ WorldSize(i).height <= viewportSize.height}
LargestFittingLevel ==
    IF FittingLevels = {} THEN 0
    ELSE CHOOSE i \in FittingLevels : \A j \in FittingLevels : j <= i
\* C10: initialisation (the step that sets isInitialized) sets zoomIndex and
\* minZoomIndex to the largest level index whose world size is within the
\* viewport on both axes, 0 when there is none, and pan to
\* clampPan((0,0), worldSizeAt(baseIndex), viewportSize).
C10_InitialisationStep ==
    [][(Mounted /\ ~isInitialized /\ isInitialized') =>
          /\ viewportSize.width # 0
          /\ zoomIndex' = LargestFittingLevel
          /\ minZoomIndex' = LargestFittingLevel
          /\ pan' = clampPan([x |-> 0, y |-> 0],
                             WorldSize(LargestFittingLevel), viewportSize)
          /\ viewportSize' = viewportSize]_vars
C10_Witness ==
    /\ Mounted /\ isInitialized
    /\ dataNumLevels = 4
    /\ minZoomIndex = 2
    /\ zoomIndex = 2
    /\ pan.x < 0

\* the documented scenario: a 4000 x 3000 source in a 600 x 400 viewport
InScenario ==
    /\ Mounted
    /\ originalDimensions = [width |-> 4000, height |-> 3000]
    /\ viewportSize = [width |-> 600 * Sub, height |-> 400 * Sub]

\* C11 (smallest fitting level): in the scenario, initialisation sets
\* minZoomIndex to the smallest level index whose world size fits within
\* 600 x 400 on both axes.
C11_ScenarioSmallestFitting ==
    [][(InScenario /\ ~isInitialized /\ isInitialized') =>
          /\ minZoomIndex' \in FittingLevels
          /\ \A j \in FittingLevels : minZoomIndex' <= j]_vars

\* C11 (largest fitting level): in the scenario the levels 0, 1 and 2 (125 x
\* 93.75, 250 x 187.5, 500 x 375) fit within 600 x 400 and level 3 (1000 x
\* 750) does not; initialisation sets minZoomIndex to 2, the largest level
\* index whose world size fits on both axes.
C11_ScenarioLargestFitting ==
    [][(InScenario /\ ~isInitialized /\ isInitialized') =>
          /\ dataNumLevels = 6
          /\ FittingLevels = {0, 1, 2}
          /\ WorldSize(2) = [width |-> 500 * Sub, height |-> 375 * Sub]
          /\ minZoomIndex' = 2
          /\ \A j \in FittingLevels : j <= minZoomIndex']_vars
C11_Witness ==
    /\ InScenario /\ isInitialized
    /\ minZoomIndex = 2
    /\ zoomIndex = 2
    /\ pan = [x |-> -50 * Sub, y |-> -(25 * Sub) \div 2]

\* C12 (base level always fits): whenever the renderer is Ready, the world
\* of level minZoomIndex is within the viewport on both axes.
C12_BaseLevelFits ==
    (Mounted /\ isInitialized) =>
        /\ WorldSize(minZoomIndex).width <= viewportSize.width
        /\ WorldSize(minZoomIndex).height <= viewportSize.height

\* C12 (base level fits when a level fits): whenever the renderer is Ready
\* and the world of some level 0..numLevels-1 is within the viewport on both
\* axes, the world of level minZoomIndex is; when no level fits (the viewport
\* is smaller than the world of level 0), minZoomIndex is 0.
C12_BaseLevelFitsWhenAnyFits ==
    (Mounted /\ isInitialized) =>
        /\ viewportSize.width # 0
        /\ FittingLevels # {} => minZoomIndex \in FittingLevels
        /\ FittingLevels = {} => minZoomIndex = 0
C12_Witness ==
    /\ Mounted /\ isInitialized
    /\ dataNumLevels = 2
    /\ FittingLevels = {}
    /\ WorldSize(minZoomIndex).width > viewportSize.width
    /\ zoomIndex = 1

\* the points of the container that are clicked, in quarters of its sides
QuarterPoints ==
    {[x |-> qx * (viewportSize.width \div 4), y |-> qy * (viewportSize.height \div 4)] :
        qx \in 0..4, qy \in 0..4}

\* the pan of a zoom from the current level to level t about the screen
\* point s, before clamping: (pan + s) * 2^(t - zoomIndex) - s
PanAboutPoint(t, s) ==
    LET num == IF t >= zoomIndex THEN 2^(t - zoomIndex) ELSE 1
        den == IF t >= zoomIndex THEN 1 ELSE 2^(zoomIndex - t)
    IN  [x |-> (num * (pan.x + s.x)) \div den - s.x,
         y |-> (num * (pan.y + s.y)) \div den - s.y,
         exact |-> /\ (num * (pan.x + s.x)) % den = 0
                   /\ (num * (pan.y + s.y)) % den = 0]

\* C13: a zoom from level z with pan p to the clamped target t about the
\* screen point s commits zoomIndex = t and
\* pan = clampPan((p + s) * 2^(t - z) - s, worldSizeAt(t), viewportSize); for
\* p = (100, 50), s = (300, 200), old scale 4 and new scale 2 the pan before
\* clamping is (500, 300).
C13_ZoomAboutPoint ==
    [][\A s \in QuarterPoints : \A target \in {zoomIndex - 1, zoomIndex + 1} :
          (Mounted /\ handleZoom(target, s)) =>
              LET t == IF target < minZoomIndex THEN minZoomIndex
                       ELSE IF target > dataNumLevels - 1 THEN dataNumLevels - 1
                       ELSE target
                  before == PanAboutPoint(t, s)
              IN  /\ zoomIndex' = t
                  /\ before.exact
                  /\ pan' = clampPan([x |-> before.x, y |-> before.y],
                                     WorldSize(t), viewportSize)
                  /\ (/\ pan = [x |-> 100 * Sub, y |-> 50 * Sub]
                      /\ s = [x |-> 300 * Sub, y |-> 200 * Sub]
                      /\ dataNumLevels - 1 - zoomIndex = 2
                      /\ t = zoomIndex + 1) =>
                         /\ before.x = 500 * Sub /\ before.y = 300 * Sub
                         /\ pan' = [x |-> 500 * Sub, y |-> 300 * Sub]]_vars
C13_Witness ==
    /\ InScenario /\ isInitialized
    /\ zoomIndex = 4
    /\ pan = [x |-> 500 * Sub, y |-> 300 * Sub]

\* the distance, in units of the old level, between the world coordinate p + s
\* under the screen coordinate s before a zoom and the world coordinate q + s
\* under it after the zoom from level z to level t, counted in 1/den units
Drift(p, q, s, z, t) ==
    LET up  == IF t >= z THEN 2^(t - z) ELSE 1
        dwn == IF t >= z THEN 1 ELSE 2^(z - t)
        d   == dwn * (q + s) - up * (p + s)
    IN  [num |-> IF d < 0 THEN -d ELSE d, den |-> up]

\* C14 (every zoom keeps the point): for every zoom transition about a screen
\* point inside the viewport, the world coordinate under the point after the
\* transition, rescaled to the old level, is less than one pixel away from
\* the one before, on each axis.
C14_PointStationary ==
    [][\A s \in QuarterPoints : \A target \in {zoomIndex - 1, zoomIndex + 1} :
          (Mounted /\ handleZoom(target, s) /\ zoomIndex' # zoomIndex) =>
              LET dx == Drift(pan.x, pan'.x, s.x, zoomIndex, zoomIndex')
                  dy == Drift(pan.y, pan'.y, s.y, zoomIndex, zoomIndex')
              IN  /\ dx.num < dx.den * Sub
                  /\ dy.num < dy.den * Sub]_vars

\* C14 (a zoom keeps the point unless the clamp moves the pan): for every
\* zoom transition about a screen point inside the viewport, on each axis on
\* which the new level's world is at least as large as the viewport and the
\* pan (p + s) * 2^(t - z) - s lies in 0 .. worldSize - viewSize, the world
\* coordinate under the point after the transition, rescaled to the old
\* level, equals the one before; on an axis where the pan is clamped or the
\* world is centred the point may move by more than a pixel.
C14_PointStationaryUnlessClamped ==
    [][\A s \in QuarterPoints : \A target \in {zoomIndex - 1, zoomIndex + 1} :
          (Mounted /\ handleZoom(target, s) /\ zoomIndex' # zoomIndex) =>
              LET before == PanAboutPoint(zoomIndex', s)
                  world == WorldSize(zoomIndex')
                  dx == Drift(pan.x, pan'.x, s.x, zoomIndex, zoomIndex')
                  dy == Drift(pan.y, pan'.y, s.y, zoomIndex, zoomIndex')
              IN  /\ (/\ world.width >= viewportSize.width
                      /\ 0 <= before.x
                      /\ before.x <= world.width - viewportSize.width)
                        => dx.num = 0
                  /\ (/\ world.height >= viewportSize.height
                      /\ 0 <= before.y
                      /\ before.y <= world.height - viewportSize.height)
                        => dy.num = 0]_vars
C14_Witness ==
    /\ InScenario /\ isInitialized
    /\ zoomIndex = 5
    /\ pan = [x |-> 1300 * Sub, y |-> 800 * Sub]

\* the zoom targets the controls ask for: one level up or down, within range
ZoomTargets ==
    {t \in {zoomIndex - 1, zoomIndex + 1} :
        minZoomIndex <= t /\ t <= dataNumLevels - 1}

\* the pan p cannot move further in the direction at the current level
AtPanLimit(p, direction) ==
    LET world == WorldSize(zoomIndex)
    IN  CASE direction = "left" ->
               world.width <= viewportSize.width \/ p.x = 0
          [] direction = "right" ->
               \/ world.width <= viewportSize.width
               \/ p.x = world.width - viewportSize.width
          [] direction = "up" ->
               world.height <= viewportSize.height \/ p.y = 0
          [] direction = "down" ->
               \/ world.height <= viewportSize.height
               \/ p.y = world.height - viewportSize.height

\* C15 (every repeat is a no-op): from any Ready state, a second application
\* of the same pan (same direction) or of the same zoom (same target and
\* screen point) leaves zoomIndex and pan as the first application left them.
C15_RepeatIsNoOp ==
    (Mounted /\ isInitialized) =>
        /\ \A direction \in Directions :
             LET once == panAfter(pan, direction)
             IN  panAfter(once, direction) = once
        /\ \A t \in ZoomTargets : \A s \in QuarterPoints :
             LET once == zoomAfter(zoomIndex, pan, t, s)
             IN  zoomAfter(once.zoomIndex, once.pan, t, s) = once

\* C15 (a repeated zoom is a no-op, a repeated pan only at the limit): from
\* any Ready state, a second application of the same zoom (same target and
\* screen point) leaves zoomIndex and pan as the first application left them;
\* a second application of the same pan leaves the pan as the first left it
\* exactly when that pan is already at the limit of its range in the
\* direction (or the world does not exceed the viewport on that axis), and
\* otherwise moves it again.
C15_RepeatedZoomIsNoOp ==
    (Mounted /\ isInitialized) =>
        /\ \A direction \in Directions :
             LET once == panAfter(pan, direction)
             IN  (panAfter(once, direction) = once) <=> AtPanLimit(once, direction)
        /\ \A t \in ZoomTargets : \A s \in QuarterPoints :
             LET once == zoomAfter(zoomIndex, pan, t, s)
             IN  /\ once.zoomIndex = t
                 /\ zoomAfter(once.zoomIndex, once.pan, t, s) = once
C15_Witness ==
    /\ InScenario /\ isInitialized
    /\ zoomIndex = 3
    /\ pan.x = 150 * Sub
    /\ ~disableRight
    /\ panAfter(pan, "right").x = 300 * Sub
    /\ panAfter(panAfter(pan, "right"), "right").x = 400 * Sub

\* the coordinate c moved by sign * 25% of the viewport's extent and then
\* brought back into the range of a world of the given extent is c2
MovedQuarter(c, c2, sign, world, view) ==
    IF world < view
      THEN 2 * c2 = world - view
      ELSE CASE 4 * c + sign * view < 0                    -> c2 = 0
             [] 4 * c + sign * view > 4 * (world - view)   -> c2 = world - view
             [] OTHER                                      -> 4 * c2 = 4 * c + sign * view

\* what C16 says of a step that is panBy(direction)
PanByFrame(direction) ==
    LET world == WorldSize(zoomIndex)
    IN  /\ zoomIndex' = zoomIndex
        /\ minZoomIndex' = minZoomIndex
        /\ viewportSize' = viewportSize
        /\ isInitialized' = isInitialized
        /\ direction \in {"left", "right"} =>
             /\ pan'.y = pan.y
             /\ MovedQuarter(pan.x, pan'.x, IF direction = "left" THEN -1 ELSE 1,
                             world.width, viewportSize.width)
             /\ world.width <= viewportSize.width => pan' = pan
        /\ direction \in {"up", "down"} =>
             /\ pan'.x = pan.x
             /\ MovedQuarter(pan.y, pan'.y, IF direction = "up" THEN -1 ELSE 1,
                             world.height, viewportSize.height)
             /\ world.height <= viewportSize.height => pan' = pan

\* C16 (in any state): panBy(direction) changes only the pan coordinate on
\* the direction's axis, to the coordinate moved by exactly 25% of the
\* viewport's extent on that axis and re-clamped against the current level's
\* world; zoomIndex, minZoomIndex, viewportSize and the other pan coordinate
\* keep their values, and the pan keeps its value when the world does not
\* exceed the viewport on that axis.
C16_PanByQuarterViewport ==
    [][\A direction \in Directions :
          (Mounted /\ handlePan(direction)) => PanByFrame(direction)]_vars

\* C16 (in a Ready state): the same, for panBy(direction) applied in a Ready
\* state, where the pan is clamped; applied while the explorer is
\* uninitialised (the viewport was resized and the pan is the stale one of
\* the old viewport) the re-clamp also changes the other coordinate.
C16_PanByQuarterViewportWhenReady ==
    [][\A direction \in Directions :
          (Mounted /\ isInitialized /\ handlePan(direction)) =>
              PanByFrame(direction)]_vars
C16_Witness ==
    /\ Mounted /\ isInitialized
    /\ showPanControls
    /\ canPanX /\ canPanY
    /\ pan.x > 0
    /\ 4 * pan.x = viewportSize.width
    /\ 4 * pan.y = 3 * viewportSize.height

\* C17: a plain click changes zoomIndex to zoomIndex + 1 when
\* zoomIndex < numLevels - 1 and changes no state when
\* zoomIndex = numLevels - 1; a shift-held click changes zoomIndex to
\* zoomIndex - 1 when zoomIndex > minZoomIndex and changes no state when
\* zoomIndex = minZoomIndex; no click changes zoomIndex by more than one level
\* or changes minZoomIndex.
C17_ClickZoomsOneLevel ==
    [][\A shiftKey \in BOOLEAN : \A qx \in 0..4 : \A qy \in 0..4 :
          onClick(shiftKey, qx, qy) =>
              /\ minZoomIndex' = minZoomIndex
              /\ zoomIndex' - zoomIndex \in {-1, 0, 1}
              /\ (~shiftKey /\ zoomIndex < dataNumLevels - 1) =>
                   zoomIndex' = zoomIndex + 1
              /\ (~shiftKey /\ zoomIndex = dataNumLevels - 1) => UNCHANGED vars
              /\ (shiftKey /\ zoomIndex > minZoomIndex) =>
                   zoomIndex' = zoomIndex - 1
              /\ (shiftKey /\ zoomIndex = minZoomIndex) => UNCHANGED vars]_vars
C17_Witness ==
    /\ Mounted /\ isInitialized
    /\ zoomIndex = dataNumLevels - 1
    /\ zoomIndex = minZoomIndex + 2
    /\ pan.x = viewportSize.width
    /\ 4 * pan.y = viewportSize.height

(***************************************************************************)
(* Properties of the offline builder and of the archive.                   *)
(***************************************************************************)
\* C19: for every source the worker builds a pyramid of, the offline builder
\* produces the same numLevels and, for every level, the same level
\* dimensions and the same set of (row, col) tile keys (so the same numbers
\* of rows and columns), whatever resize does.
C19_OfflineBuilderAgrees ==
    \A d \in DoneData : \A outcome \in ResizeOutcomes :
        LET py == generate_tiles_manually(d.originalDimensions.width,
                                          d.originalDimensions.height, outcome)
        IN  /\ ~py.failed
            /\ py.numLevels = d.numLevels
            /\ DOMAIN py.dims = DOMAIN d.tiles
            /\ \A lv \in DOMAIN d.tiles :
                 /\ py.dims[lv] = levelDims[lv]
                 /\ py.keys[lv] = DOMAIN d.tiles[lv]

\* the manifest is there, parses to an object, and has originalDimensions
\* with width and height, and numLevels
ManifestComplete(zip) ==
    /\ zip.manifest # NoData
    /\ Parses(zip.manifest)
    /\ LET imageData == ParseManifest(zip.manifest)
       IN  /\ imageData.t = "object"
           /\ Get(imageData, "numLevels").t = "number"
           /\ LET od == Get(imageData, "originalDimensions")
              IN  /\ od.t = "object"
                  /\ {"width", "height"} \subseteq DOMAIN od.members

\* C18: when the manifest of the dropped archive is missing, does not parse
\* or lacks a required field (originalDimensions with width and height, or
\* numLevels), the step of handleZipFile that reads it ends the load in an
\* error: no tile extraction starts, and the pyramid on display and the
\* explorer's key (so onTilesGenerated was not called) stay as they were.
C18_BadManifestRejected ==
    [][(zipLoad.pc = "manifest" /\ ~ManifestComplete(zipLoad.zip))
          => /\ zipLoad'.pc \in {"manifest", "failed"}
             /\ generatedData' = generatedData
             /\ explorerKey' = explorerKey]_vars

\* the tiles of a pyramid, each with its level, its key and its bytes
TileSet(tiles) ==
    UNION {{<<lv, k, tiles[lv][k]>> : k \in DOMAIN tiles[lv]} : lv \in DOMAIN tiles}

\* C20: the archive handleExport saves loads back to the pyramid it was
\* exported from: the manifest is accepted and gives the same
\* originalDimensions and numLevels, every tile is an entry
\* tiles/<level>/<row>_<col>.png, the loader picks exactly those entries, and
\* the loaded tiles are the same (level, key) pairs with the same bytes.
C20_ExportLoadRoundTrip ==
    download.pc = "saved" =>
        LET zip == download.zip
            data == download.data
        IN  /\ ManifestAccepted(zip)
            /\ LoadedData(zip).originalDimensions = data.originalDimensions
            /\ LoadedData(zip).numLevels = data.numLevels
            /\ PickedFiles(zip) =
                 {TileEntry(t[1], t[2], t[3]) : t \in TileSet(data.tiles)}
            /\ TileSet(LoadedData(zip).tiles) = TileSet(data.tiles)

(***************************************************************************)
(* Properties of zoomTo and of the renderer's frames.                      *)
(***************************************************************************)
\* the targets of a zoom that are tried: the level itself, its neighbours,
\* and levels beyond either end of the range
AnyZoomTargets == (0 - 1)..(Max(dataNumLevels, 0) + 1)
\* Math.min(Math.max(t, minZoomIndex), numLevels - 1)
ClampedTarget(t) == Min(Max(t, minZoomIndex), dataNumLevels - 1)

\* C22: in every Ready state, zoomTo with the current zoomIndex as its target
\* changes nothing; with any other target t it commits the zoomIndex
\* min(max(t, minZoomIndex), numLevels - 1) (the range being non-empty, as it
\* is for every pyramid that has a level); and when the level it commits is
\* the current one (a target beyond the range, at the boundary) zoomIndex and
\* the pan, which is clamped, stay as they are.
C22_ZoomToClamps ==
    (Mounted /\ isInitialized) =>
        \A s \in QuarterPoints : \A t \in AnyZoomTargets :
            (t = zoomIndex \/ ClampedTarget(t) \in {zoomIndex - 1, zoomIndex, zoomIndex + 1}) =>
                LET after == zoomAfter(zoomIndex, pan, t, s)
                IN  /\ t = zoomIndex => after = [zoomIndex |-> zoomIndex, pan |-> pan]
                    /\ (t # zoomIndex /\ minZoomIndex <= dataNumLevels - 1) =>
                          after.zoomIndex = ClampedTarget(t)
                    /\ after.zoomIndex = zoomIndex =>
                          after = [zoomIndex |-> zoomIndex, pan |-> pan]
\* at the finest level, above the base level: a request for the level beyond
\* the range leaves the level and the pan
C22_Witness ==
    /\ Mounted /\ isInitialized
    /\ dataNumLevels >= 2
    /\ zoomIndex = dataNumLevels - 1
    /\ zoomIndex > minZoomIndex
    /\ pan.x > 0
    /\ zoomAfter(zoomIndex, pan, zoomIndex + 1, viewportCentre) =
          [zoomIndex |-> zoomIndex, pan |-> pan]

\* Ready, with the state getInitialState gives for the current viewport
FreshlyReady ==
    /\ isInitialized
    /\ minZoomIndex = ScanBaseIndex(0, 0)
    /\ zoomIndex = minZoomIndex
    /\ pan = clampPan([x |-> 0, y |-> 0], WorldSize(minZoomIndex), viewportSize)
\* a resize or a zoom-out-fully request leaves the explorer uninitialised
ResetsToUninitialized ==
    [][((\E frame \in Frames : Resize(frame)) \/ handleZoomOutFully)
          => ~isInitialized']_vars
\* with a viewport of width zero the explorer is uninitialised, stays so
\* until the width changes, and composes no frame
ZeroWidthUninitialized ==
    /\ [](viewportSize.width = 0 => (~isInitialized /\ ~FrameComposed))
    /\ [][(viewportSize.width = 0 /\ viewportSize'.width = 0) => ~isInitialized']_vars

ScreenPlace(k, p) ==
    [x |-> Floor(k[2] * TILE_SIZE * Sub - p.x, Sub),
     y |-> Floor(k[1] * TILE_SIZE * Sub - p.y, Sub)]
\* the paint of the tile at cell k of level z by a frame whose pan is p
PaintOf(z, k, p) ==
    [img    |-> [src |-> [level |-> z, key |-> k, blob |-> dataTiles[z][k]]],
     x      |-> ScreenPlace(k, p).x,
     y      |-> ScreenPlace(k, p).y,
     width  |-> TILE_SIZE,
     height |-> TILE_SIZE]

\* C23: no step that changes the viewport state or composes a frame takes an
\* awaited image away; and when the onload of an awaited image runs, however
\* late and whichever of the awaited images it is, the cache holds the image
\* under the key of that image's own level, row and column, every other key
\* keeps its image, and the tile is drawn last, at the place computed from
\* the pan of the frame that asked for it.
C23_LateCompletion ==
    [][/\ (Deps' # Deps \/ frameDeps' # frameDeps) => fetches \subseteq fetches'
       /\ \A f \in fetches :
            onload(f) =>
                LET z == f.src.level
                    k == f.src.key
                IN  /\ f.tileKey = <<z, k[1], k[2]>>
                    /\ DOMAIN imageCache' = DOMAIN imageCache \cup {f.tileKey}
                    /\ imageCache'[f.tileKey] = [src |-> f.src]
                    /\ \A key \in DOMAIN imageCache \ {f.tileKey} :
                          imageCache'[key] = imageCache[key]
                    /\ canvasRef'.top = PaintOf(z, k, f.pan)
                    /\ canvasRef'.paints = canvasRef.paints \cup {PaintOf(z, k, f.pan)}
      ]_vars
\* the image of a tile of the coarser level was drawn after the explorer had
\* zoomed in and the frame of the finer level had been composed, while a
\* second image is still awaited
C23_Witness ==
    /\ isInitialized
    /\ ~DrawDue
    /\ zoomIndex = 1
    /\ canvasRef.top # NoData
    /\ canvasRef.top = PaintOf(0, <<0, 0>>, [x |-> (0 - 31) * Sub, y |-> (0 - 31) * ExactDiv(Sub, 2)])
    /\ <<0, 0, 0>> \in DOMAIN imageCache
    /\ fetches # {}

\* no image is awaited and no frame is due: nothing more is drawn until the
\* next event
Quiescent == Mounted /\ FrameComposed /\ ~DrawDue /\ fetches = {}

\* C24: once no image is awaited and no frame is due, every tile on the
\* canvas is a tile of the current zoomIndex, drawn at the place the current
\* pan gives its row and column (rounded down to a whole pixel, as drawImage
\* is given it): no tile is left over from a superseded pan or zoom level.
C24_NoLeftoverTile ==
    Quiescent =>
        \A paint \in canvasRef.paints :
            /\ paint.img.src.level = zoomIndex
            /\ paint.x = ScreenPlace(paint.img.src.key, pan).x
            /\ paint.y = ScreenPlace(paint.img.src.key, pan).y

\* the cells of the current frame that have a tile in the store
VisibleTiles == {k \in Visited(pan) : HasTile(zoomIndex, k)}
\* the keys of the cache
CachedKeys == DOMAIN imageCache

\* every key <<level, row, col>> of the cache holds the image loaded from the
\* source of that tile of the store
CacheKeyedByTile ==
    \A key \in CachedKeys :
        /\ HasTile(key[1], <<key[2], key[3]>>)
        /\ imageCache[key] = [src |-> tileSrc(key[1], <<key[2], key[3]>>)]
\* C25: in every state the cache maps a key <<level, row, col>> only to the
\* image loaded from that tile's source; a key is written only by the step in which an image awaited for that
\* key stops being awaited; and a frame draws the visible tiles whose key is
\* cached, at once, and leaves an image awaited for every other visible tile
\* of the store, with the pan and the key of the frame.
C25_CacheAndFrame ==
    /\ []CacheKeyedByTile
    /\ [][/\ (\E key \in CachedKeys' :
                key \notin CachedKeys \/ imageCache'[key] # imageCache[key]) =>
               \E f \in fetches \ fetches' :
                   /\ f.tileKey = <<f.src.level, f.src.key[1], f.src.key[2]>>
                   /\ CachedKeys' = CachedKeys \cup {f.tileKey}
                   /\ \A key \in CachedKeys \ {f.tileKey} :
                         imageCache'[key] = imageCache[key]
          /\ (DrawEffect /\ FrameComposed) =>
               /\ canvasRef'.paints =
                     {PaintOf(zoomIndex, k, pan) :
                        k \in {c \in VisibleTiles : tileKey(zoomIndex, c) \in CachedKeys}}
               /\ \A k \in VisibleTiles :
                     tileKey(zoomIndex, k) \notin CachedKeys =>
                         \E f \in fetches' :
                             /\ f.tileKey = tileKey(zoomIndex, k)
                             /\ f.src = tileSrc(zoomIndex, k)
                             /\ f.pan = pan
               /\ \A f \in fetches' \ fetches :
                     /\ f.cell \in VisibleTiles
                     /\ f.tileKey \notin CachedKeys
         ]_vars
\* a frame of the finer level has drawn the one tile that is cached and
\* awaits the image of the other
C25_Witness ==
    /\ isInitialized /\ ~DrawDue
    /\ zoomIndex = 1
    /\ CachedKeys = {<<0, 0, 0>>, <<1, 0, 1>>}
    /\ canvasRef.paints = {PaintOf(1, <<0, 1>>, pan)}
    /\ fetches = {NewImage(1, <<0, 0>>, pan)}

\* C26: while the same pyramid is shown, no step (a pan, a zoom, a click, a
\* resize, a zoom-out-fully request, a frame, an image that loads or fails)
\* takes a key out of the cache or changes the image under a key; and the
\* step that replaces the pyramid leaves the new explorer with an empty
\* cache, no image awaited and the viewport state of a fresh instance.
C26_CacheGrowsWithinSession ==
    [][/\ explorerKey' = explorerKey =>
            /\ CachedKeys \subseteq CachedKeys'
            /\ \A key \in CachedKeys : imageCache'[key] = imageCache[key]
       /\ explorerKey' # explorerKey =>
            /\ imageCache' = <<>>
            /\ fetches' = {}
            /\ zoomIndex' = 0
            /\ minZoomIndex' = 0
            /\ pan' = [x |-> 0, y |-> 0]
            /\ viewportSize' = NoSize
            /\ ~isInitialized'
      ]_vars
\* the explorer of the second pyramid, initialised, with the image of its
\* one tile in its cache
C26_Witness ==
    /\ explorerKey = 2
    /\ originalDimensions = [width |-> 128, height |-> 64]
    /\ isInitialized
    /\ CachedKeys = {<<0, 0, 0>>}
    /\ imageCache[<<0, 0, 0>>] = [src |-> tileSrc(0, <<0, 0>>)]

\* C27: an awaited image that stops being awaited without being drawn (it
\* failed to load) leaves the cache, the canvas and the viewport state as
\* they are; an image that stays awaited does nothing; and every frame in
\* which a tile of the store is visible whose key is not in the cache, a
\* tile whose image failed among them, asks for that key again, with the pan
\* of the frame.
C27_FailedFetch ==
    [][/\ \A f \in fetches :
            (f \notin fetches' /\ canvasRef'.top # PaintOf(f.src.level, f.src.key, f.pan)) =>
                UNCHANGED <<imageCache, canvasRef, zoomIndex, minZoomIndex, pan,
                            viewportSize, isInitialized>>
       /\ \A f \in fetches : FetchFails(f) => f.tileKey \notin CachedKeys' \ CachedKeys
       /\ (DrawEffect /\ FrameComposed) =>
            \A k \in VisibleTiles :
                tileKey(zoomIndex, k) \notin CachedKeys =>
                    NewImage(zoomIndex, k, pan) \in fetches'
      ]_vars
\* nothing is awaited and no frame is due, one of the two visible tiles of
\* the finer level is on the canvas and the other, whose image failed, is
\* neither drawn nor cached
C27_Witness ==
    /\ Quiescent
    /\ zoomIndex = 1
    /\ VisibleTiles = {<<0, 0>>, <<0, 1>>}
    /\ <<1, 0, 1>> \notin CachedKeys
    /\ canvasRef.paints = {PaintOf(1, <<0, 0>>, pan)}

\* the pixel columns and rows of the current level's bitmap of which a part
\* is inside the viewport
ColumnsInView ==
    {wx \in 0..(ExactDiv(WorldSize(zoomIndex).width, Sub) - 1) :
        (wx + 1) * Sub > pan.x /\ wx * Sub < pan.x + viewportSize.width}
RowsInView ==
    {wy \in 0..(ExactDiv(WorldSize(zoomIndex).height, Sub) - 1) :
        (wy + 1) * Sub > pan.y /\ wy * Sub < pan.y + viewportSize.height}
\* the rows and columns of a frame: floor(pan / TILE_SIZE) up to
\* ceil((pan + viewport) / TILE_SIZE) - 1, on each axis
CellsInRange ==
    {k \in ((pan.y \div (TILE_SIZE * Sub))
              ..(((pan.y + viewportSize.height + TILE_SIZE * Sub - 1) \div (TILE_SIZE * Sub)) - 1))
           \X ((pan.x \div (TILE_SIZE * Sub))
              ..(((pan.x + viewportSize.width + TILE_SIZE * Sub - 1) \div (TILE_SIZE * Sub)) - 1)) :
        TRUE}
\* every pixel of the level's bitmap that is inside the viewport belongs to a
\* cell of that range that has a tile in the store
BitmapInViewCovered ==
    \A row \in {wy \div TILE_SIZE : wy \in RowsInView},
       col \in {wx \div TILE_SIZE : wx \in ColumnsInView} :
        /\ <<row, col>> \in CellsInRange
        /\ HasTile(zoomIndex, <<row, col>>)
\* a frame handles exactly the cells of that range that have a tile:
\* each is drawn or has an image awaited with the pan of the frame
FrameHandlesCellsInRange ==
    (DrawEffect /\ FrameComposed) =>
        /\ {paint.img.src.key : paint \in canvasRef'.paints}
              \cup {f.cell : f \in {g \in fetches' : g \in fetches' \ fetches \/ (g.pan = pan /\ g.tileKey[1] = zoomIndex)}}
             = {k \in CellsInRange : HasTile(zoomIndex, k)}
        /\ \A paint \in canvasRef'.paints :
              paint.width = TILE_SIZE /\ paint.height = TILE_SIZE

\* C28 (as stated): each frame visits the rows floor(pan.y / TILE_SIZE) ..
\* ceil((pan.y + viewport.height) / TILE_SIZE) - 1 and the columns likewise,
\* draws the tile of row and column at exactly
\* (col * TILE_SIZE - pan.x, row * TILE_SIZE - pan.y) with the extent
\* TILE_SIZE x TILE_SIZE, and every viewport pixel inside the level's bitmap
\* is covered by a visited tile of the grid.
C28_DrawnAtExactOffset ==
    /\ [](FrameComposed => BitmapInViewCovered)
    /\ [][/\ FrameHandlesCellsInRange
          /\ (DrawEffect /\ FrameComposed) =>
                \A paint \in canvasRef'.paints :
                    /\ paint.x * Sub = paint.img.src.key[2] * TILE_SIZE * Sub - pan.x
                    /\ paint.y * Sub = paint.img.src.key[1] * TILE_SIZE * Sub - pan.y
                    /\ paint.width = TILE_SIZE /\ paint.height = TILE_SIZE
         ]_vars

\* C28 (rounded down): as above, but the tile is drawn at
\* (floor(col * TILE_SIZE - pan.x), floor(row * TILE_SIZE - pan.y)): the
\* place is rounded down to a whole pixel when the pan is not whole.
C28_DrawnAtFlooredOffset ==
    /\ [](FrameComposed => BitmapInViewCovered)
    /\ [][/\ FrameHandlesCellsInRange
          /\ (DrawEffect /\ FrameComposed) =>
                \A paint \in canvasRef'.paints :
                    /\ paint.x = Floor(paint.img.src.key[2] * TILE_SIZE * Sub - pan.x, Sub)
                    /\ paint.y = Floor(paint.img.src.key[1] * TILE_SIZE * Sub - pan.y, Sub)
                    /\ paint.width = TILE_SIZE /\ paint.height = TILE_SIZE
         ]_vars
\* a frame of the finer level with a pan that is not a whole number of
\* pixels has drawn the two tiles, both cached, half a pixel further up
C28_Witness ==
    /\ isInitialized /\ ~DrawDue
    /\ zoomIndex = 1
    /\ pan.y % Sub # 0
    /\ CachedKeys = {<<1, 0, 0>>, <<1, 0, 1>>}
    /\ canvasRef.paints = FramePaints
    /\ \A paint \in canvasRef.paints : paint.y * Sub < 0 - pan.y
    /\ BitmapInViewCovered

\* the grid of the current level: the cells of its bitmap
LevelGrid ==
    GridKeys(ExactDiv(WorldSize(zoomIndex).width, Sub),
             ExactDiv(WorldSize(zoomIndex).height, Sub))

\* C29: the standalone renderer has the transitions of the interactive one,
\* so that the two are in the same state after the same events; in every
\* state in which a frame is composed the standalone renderer asks for the
\* images of the same cells as the interactive one, and all of them are
\* cells of the level's grid.
C29_SameFetchesInsideGrid ==
    FrameComposed =>
        /\ {tileKey(zoomIndex, k) : k \in StandaloneMisses}
              = {tileKey(zoomIndex, k) : k \in Misses}
        /\ StandaloneMisses \subseteq LevelGrid

\* a build, a load or an export is in progress and the splitter state was
\* reset since it started: the operation is abandoned
Abandoned == isProcessing /\ imageFile = NoData

\* C30: once a build or a load in progress is abandoned (a mode button was
\* clicked, which resets the splitter state) no step publishes a result: the
\* App's generatedData, its explorerKey and the splitter's generatedData stay
\* as they are; and a result is published only by a step that ends an
\* operation in progress, so that no build publishes twice.
C30_AbandonedNeverPublishes ==
    [][/\ Abandoned =>
            /\ generatedData' = generatedData
            /\ explorerKey' = explorerKey
            /\ splitterGeneratedData' = splitterGeneratedData
       /\ explorerKey' # explorerKey => (isProcessing /\ ~isProcessing')
      ]_vars

(***************************************************************************)
(* The builder's levels against the renderer's world sizes, the algebra of *)
(* zoom and clampPan, the cursor and the frame.                            *)
(***************************************************************************)
\* the explorer shows the pyramid the worker has built: the bitmaps it tiled
\* are those of the levels of the data
ShowsBuiltPyramid ==
    /\ Mounted
    /\ wpc = "closed"
    /\ originalDimensions = image
    /\ dataNumLevels = numLevels

\* C31: for every level i of the pyramid shown, the world size of the
\* renderer (originalDimensions / 2 ** (numLevels - 1 - i), which it uses to
\* choose the first level, to clamp the pan and to zoom) is the size of the
\* bitmap the builder tiled at level i.
C31_WorldSizeIsLevelBitmap ==
    ShowsBuiltPyramid =>
        \A i \in 0..(dataNumLevels - 1) :
            /\ i \in DOMAIN levelDims
            /\ WorldSize(i).width = levelDims[i].width * Sub
            /\ WorldSize(i).height = levelDims[i].height * Sub

\* C32: the bitmap tiled at level i, obtained by halving the bitmap of the
\* next finer level with Math.floor, is floor(w / 2^(numLevels-1-i)) wide and
\* floor(h / 2^(numLevels-1-i)) high: halving step by step and dividing the
\* original size by the scale of the level give the same.
C32_HalvingIsFloorDivision ==
    \A lv \in DOMAIN levelDims :
        /\ levelDims[lv].width = image.width \div 2^(numLevels - 1 - lv)
        /\ levelDims[lv].height = image.height \div 2^(numLevels - 1 - lv)
\* a source with odd sides, tiled down to its coarsest level
C32_Witness ==
    /\ wpc = "closed"
    /\ image = [width |-> 301, height |-> 257]
    /\ numLevels = 3
    /\ DOMAIN levelDims = 0..2
    /\ levelDims[1] = [width |-> 150, height |-> 128]
    /\ levelDims[0] = [width |-> 75, height |-> 64]
    /\ 75 = 301 \div 4

\* C33: every level the builder creates has a bitmap at least one pixel wide
\* and one pixel high, and so a grid of at least one row and one column of
\* tiles.
C33_NoEmptyLevel ==
    \A lv \in DOMAIN levelDims :
        /\ levelDims[lv].width >= 1
        /\ levelDims[lv].height >= 1
        /\ GridRows(levelDims[lv].height) >= 1
        /\ GridCols(levelDims[lv].width) >= 1

\* the state after a zoom in by one level about the screen point s
ZoomedIn(s) == zoomAfter(zoomIndex, pan, zoomIndex + 1, s)
\* and after the zoom out by one level about the same point that follows it
ZoomedInAndOut(s) ==
    zoomAfter(ZoomedIn(s).zoomIndex, ZoomedIn(s).pan, ZoomedIn(s).zoomIndex - 1, s)

\* C34: in every Ready state with zoomIndex < numLevels - 1, zooming in one
\* level about a screen point inside the viewport and then out one level
\* about the same point gives back the zoomIndex and the pan of the state.
C34_ZoomInOutRestores ==
    (Mounted /\ isInitialized /\ zoomIndex < dataNumLevels - 1) =>
        \A s \in QuarterPoints :
            /\ ZoomedIn(s).zoomIndex = zoomIndex + 1
            /\ ZoomedInAndOut(s) = [zoomIndex |-> zoomIndex, pan |-> pan]
\* a Ready state above the base level with a pan away from the origin, from
\* which the zoom in about the centre moves the pan
C34_Witness ==
    /\ Mounted /\ isInitialized
    /\ zoomIndex > minZoomIndex
    /\ zoomIndex < dataNumLevels - 1
    /\ pan.x > 0 /\ pan.y > 0
    /\ ZoomedIn(viewportCentre).pan # pan
    /\ ZoomedInAndOut(viewportCentre) = [zoomIndex |-> zoomIndex, pan |-> pan]

\* C35: in every Ready state with zoomIndex < numLevels - 1, a zoom in by one
\* level about a screen point inside the viewport is not clamped on an axis
\* on which the world of the old level is at least as large as the viewport:
\* on such an axis the new pan is 2 * pan + screenPoint, so the world point
\* under the screen point stays where it is.
C35_ZoomInNeedsNoClamp ==
    (Mounted /\ isInitialized /\ zoomIndex < dataNumLevels - 1) =>
        \A s \in QuarterPoints :
            /\ WorldSize(zoomIndex).width >= viewportSize.width =>
                  /\ ZoomedIn(s).pan.x = 2 * pan.x + s.x
                  /\ ZoomedIn(s).pan.x + s.x = 2 * (pan.x + s.x)
            /\ WorldSize(zoomIndex).height >= viewportSize.height =>
                  /\ ZoomedIn(s).pan.y = 2 * pan.y + s.y
                  /\ ZoomedIn(s).pan.y + s.y = 2 * (pan.y + s.y)
\* a Ready state at the far end of the pan range of a level larger than the
\* viewport on both axes, from which the zoom in about the far corner of the
\* viewport reaches the far end of the next level's range
C35_Witness ==
    /\ Mounted /\ isInitialized
    /\ zoomIndex < dataNumLevels - 1
    /\ WorldSize(zoomIndex).width > viewportSize.width
    /\ WorldSize(zoomIndex).height > viewportSize.height
    /\ pan.x = WorldSize(zoomIndex).width - viewportSize.width
    /\ pan.y = WorldSize(zoomIndex).height - viewportSize.height
    /\ ZoomedIn([x |-> viewportSize.width, y |-> viewportSize.height]).pan
          = [x |-> WorldSize(zoomIndex + 1).width - viewportSize.width,
             y |-> WorldSize(zoomIndex + 1).height - viewportSize.height]

\* pans around the current one, up to 256 px off on either side of each axis
PanInputs ==
    {[x |-> pan.x + dx * 64 * Sub, y |-> pan.y + dy * 64 * Sub] :
        dx \in -4..4, dy \in -4..4}
\* the world sizes of all the levels of the mounted pyramid
WorldInputs == {WorldSize(i) : i \in 0..(dataNumLevels - 1)}
\* C36: clampPan is idempotent, and on an axis on which the world is smaller
\* than the viewport its result is the same for every pan it is given: for
\* the world of every level, the viewport and every pan of PanInputs,
\* clampPan(clampPan(p, W, V), W, V) = clampPan(p, W, V), and with W < V on an
\* axis the result on that axis is the one for the pan (0, 0).
C36_ClampPanIdempotent ==
    Mounted =>
        \A W \in WorldInputs : \A p \in PanInputs :
            /\ clampPan(clampPan(p, W, viewportSize), W, viewportSize)
                  = clampPan(p, W, viewportSize)
            /\ W.width < viewportSize.width =>
                  clampPan(p, W, viewportSize).x
                     = clampPan([x |-> 0, y |-> 0], W, viewportSize).x
            /\ W.height < viewportSize.height =>
                  clampPan(p, W, viewportSize).y
                     = clampPan([x |-> 0, y |-> 0], W, viewportSize).y
\* a Ready state whose pan is strictly inside the range of its level, with a
\* coarser level smaller than the viewport, and pans of PanInputs that
\* clampPan moves to either end of the range
C36_Witness ==
    /\ Mounted /\ isInitialized
    /\ pan = clampPan(pan, WorldSize(zoomIndex), viewportSize)
    /\ pan.x > 0 /\ pan.x < WorldSize(zoomIndex).width - viewportSize.width
    /\ \E p \in PanInputs :
          clampPan(p, WorldSize(zoomIndex), viewportSize).x = 0 /\ p.x < 0
    /\ \E p \in PanInputs :
          /\ p.x > WorldSize(zoomIndex).width - viewportSize.width
          /\ clampPan(p, WorldSize(zoomIndex), viewportSize).x
                = WorldSize(zoomIndex).width - viewportSize.width
    /\ \E W \in WorldInputs :
          /\ W.width < viewportSize.width
          /\ \A p \in PanInputs : clampPan(p, W, viewportSize).x < 0

\* C37: at any time at most one image is awaited for a key (level, row, col):
\* a frame creates no new image for a tile whose earlier image has not yet
\* loaded.
C37_OneFetchPerKey ==
    \A f \in fetches : \A g \in fetches : f.tileKey = g.tileKey => f = g

\* handleKeyDown of the window: e.key === 'Shift'
handleKeyDown ==
    /\ Mounted
    /\ isShiftPressed' = TRUE
    /\ UNCHANGED <<zoomIndex, minZoomIndex, pan, viewportSize, isInitialized,
                   imageCache, fetches, canvasRef, frameDeps, workerVars, mainVars>>
\* handleKeyUp of the window: e.key === 'Shift'
handleKeyUp ==
    /\ Mounted
    /\ isShiftPressed' = FALSE
    /\ UNCHANGED <<zoomIndex, minZoomIndex, pan, viewportSize, isInitialized,
                   imageCache, fetches, canvasRef, frameDeps, workerVars, mainVars>>
\* the cursor class of the container, as the render computes it
cursorClass ==
    IF isShiftPressed /\ zoomIndex > minZoomIndex THEN "cursor-zoom-out"
    ELSE IF ~isShiftPressed /\ zoomIndex < dataNumLevels - 1 THEN "cursor-zoom-in"
    ELSE "cursor-default"

\* the explorer with the key listeners of the window; the clicks carry the
\* modifier of their own event
CursorNext ==
    \/ ExplorerNext
    \/ handleKeyDown
    \/ handleKeyUp

CursorSpec == ExplorerInit /\ [][CursorNext]_vars

\* zoomIndex and pan after onClick with the given modifier at screenPoint
clickAfter(shiftKey, screenPoint) ==
    IF shiftKey
      THEN IF zoomIndex > minZoomIndex
             THEN zoomAfter(zoomIndex, pan, zoomIndex - 1, screenPoint)
             ELSE [zoomIndex |-> zoomIndex, pan |-> pan]
      ELSE IF zoomIndex < dataNumLevels - 1
             THEN zoomAfter(zoomIndex, pan, zoomIndex + 1, screenPoint)
             ELSE [zoomIndex |-> zoomIndex, pan |-> pan]
\* the cursor shown agrees with what a click with the given modifier does
CursorAgrees(shiftKey) ==
    \A s \in QuarterPoints :
        /\ cursorClass = "cursor-zoom-in"
              <=> clickAfter(shiftKey, s).zoomIndex = zoomIndex + 1
        /\ cursorClass = "cursor-zoom-out"
              <=> clickAfter(shiftKey, s).zoomIndex = zoomIndex - 1
        /\ cursorClass = "cursor-default"
              <=> clickAfter(shiftKey, s) = [zoomIndex |-> zoomIndex, pan |-> pan]
\* C38: at every click the cursor shown just before it agrees with what the
\* click does: zoom-in exactly when the click zooms in one level, zoom-out
\* exactly when it zooms out one level, default exactly when it changes
\* nothing, whatever the key events seen so far and whatever the modifier
\* the click carries.
C38_CursorAgreesWithClick ==
    (Mounted /\ viewportSize.width > 0 /\ viewportSize.height > 0) =>
        \A shiftKey \in BOOLEAN : CursorAgrees(shiftKey)

\* the display areas of positive width and height that are tried
PositiveAreas ==
    {a \in AreaSides \X AreaSides : a[1] > 0 /\ a[2] > 0 /\ ExactArea(a[1], a[2])}
\* the frame is within 95% of the area on both axes, at 95% on one of them,
\* and has the aspect ratio of the source image
FrameFits(frame, parentWidth, parentHeight) ==
    /\ frame.width * 20 <= parentWidth * Sub * 19
    /\ frame.height * 20 <= parentHeight * Sub * 19
    /\ \/ frame.width * 20 = parentWidth * Sub * 19
       \/ frame.height * 20 = parentHeight * Sub * 19
    /\ frame.height > 0
    /\ frame.width * originalDimensions.height
          = frame.height * originalDimensions.width
\* a step of the ResizeObserver callback
ResizeStep ==
    /\ Mounted
    /\ explorerKey' = explorerKey
    /\ isInitialized' = FALSE
    /\ viewportSize' # viewportSize
\* C39: after every resize to a display area of positive width and height,
\* viewportSize is at most 95% of the area on either axis, exactly 95% on at
\* least one, and its width / height is the width / height of the source
\* image: the frame computed for every such area has these properties, and
\* a resize step to a frame that is not empty leaves the frame of such an area.
C39_FrameFitsArea ==
    /\ [](Mounted => \A a \in PositiveAreas : FrameFits(FrameOf(a[1], a[2]), a[1], a[2]))
    /\ [][(ResizeStep /\ viewportSize'.width > 0) =>
             \E a \in PositiveAreas :
                 /\ viewportSize' = FrameOf(a[1], a[2])
                 /\ FrameFits(viewportSize', a[1], a[2])]_vars
\* a frame limited by the height of its area: the second branch of the callback
C39_Witness ==
    /\ Mounted
    /\ ~isInitialized
    /\ \E a \in PositiveAreas :
          /\ viewportSize = FrameOf(a[1], a[2])
          /\ viewportSize.height * 20 = a[2] * Sub * 19
          /\ viewportSize.width * 20 < a[1] * Sub * 19
          /\ FrameFits(viewportSize, a[1], a[2])

=============================================================================
